---- MODULE Spec2Model ----
(***************************************************************************)
(* A model of the positional table-reconstruction engine of src/app.py:    *)
(* the content-shape classifiers, the per-row correctors, the cross-row    *)
(* correctors and the passes of build_table_with_header_from_pdf.          *)
(*                                                                         *)
(* Cell values are strings.  A character of a string s is the one-letter   *)
(* string SubSeq(s, i, i), so the classifiers are computed character by    *)
(* character as the Python code computes them.  Columns keep the source's  *)
(* 0-based numbers: column j of a row r is r[j + 1].                       *)
(***************************************************************************)
EXTENDS Integers, Sequences, FiniteSets, Bags, TLC

VARIABLES
    pc,        \* position of the run inside build_table_with_header_from_pdf
    run,       \* 1: the run on the extracted rows, 2: the run on its own output
    input,     \* the rows the first run started from
    rows,      \* the table the passes transform
    out1,      \* the data the first run returned
    fn,        \* single-function application: <<name, argument, result>>
    geo        \* geometric stages: spans, boundaries and their results

vars == <<pc, run, input, rows, out1, fn, geo>>

(***************************************************************************)
(* Strings, as Python's str methods compute them.                          *)
(***************************************************************************)
Ch(s, i) == SubSeq(s, i, i)

Digits == {"0", "1", "2", "3", "4", "5", "6", "7", "8", "9"}
UpperLetters == "ABCDEFGHIJKLMNOPQRSTUVWXYZ"
LowerLetters == "abcdefghijklmnopqrstuvwxyz"
WhiteSpace == {" ", "\n", "\t", "\r"}

IsUpperC(c) == \E i \in 1..26 : Ch(UpperLetters, i) = c
IsLowerC(c) == \E i \in 1..26 : Ch(LowerLetters, i) = c
IsAlphaC(c) == IsUpperC(c) \/ IsLowerC(c)
IsDigitC(c) == c \in Digits
IsAlnumC(c) == IsAlphaC(c) \/ IsDigitC(c)

\* str.upper() and str.lower(), one character
UpperC(c) == IF IsLowerC(c)
             THEN Ch(UpperLetters, CHOOSE i \in 1..26 : Ch(LowerLetters, i) = c)
             ELSE c
LowerC(c) == IF IsUpperC(c)
             THEN Ch(LowerLetters, CHOOSE i \in 1..26 : Ch(UpperLetters, i) = c)
             ELSE c

MinOf(S) == CHOOSE x \in S : \A y \in S : x <= y
MaxOf(S) == CHOOSE x \in S : \A y \in S : y <= x

\* a character-wise conversion is computed by halving the string
RECURSIVE MapUpper(_)
MapUpper(s) ==
    IF Len(s) <= 1 THEN UpperC(s)
    ELSE MapUpper(SubSeq(s, 1, Len(s) \div 2))
         \o MapUpper(SubSeq(s, Len(s) \div 2 + 1, Len(s)))
RECURSIVE MapLower(_)
MapLower(s) ==
    IF Len(s) <= 1 THEN LowerC(s)
    ELSE MapLower(SubSeq(s, 1, Len(s) \div 2))
         \o MapLower(SubSeq(s, Len(s) \div 2 + 1, Len(s)))

\* str.strip()
NonSpaceAt(s) == {i \in 1..Len(s) : Ch(s, i) \notin WhiteSpace}
LStrip(s) == IF NonSpaceAt(s) = {} THEN "" ELSE SubSeq(s, MinOf(NonSpaceAt(s)), Len(s))
RStrip(s) == IF NonSpaceAt(s) = {} THEN "" ELSE SubSeq(s, 1, MaxOf(NonSpaceAt(s)))
Strip(s) == RStrip(LStrip(s))

\* str.replace(c, "") for every character c of the set drop
RECURSIVE RemoveChars(_, _)
RemoveChars(s, drop) ==
    IF s = "" THEN ""
    ELSE IF Len(s) = 1 THEN (IF s \in drop THEN "" ELSE s)
    ELSE RemoveChars(SubSeq(s, 1, Len(s) \div 2), drop)
         \o RemoveChars(SubSeq(s, Len(s) \div 2 + 1, Len(s)), drop)

\* str.replace(c, "", 1): the first occurrence only
RemoveFirst(s, c) ==
    LET I == {i \in 1..Len(s) : Ch(s, i) = c}
    IN  IF I = {} THEN s
        ELSE SubSeq(s, 1, MinOf(I) - 1) \o SubSeq(s, MinOf(I) + 1, Len(s))

\* str.replace("\n", " ")
RECURSIVE NewlinesToSpaces(_)
NewlinesToSpaces(s) ==
    IF s = "" THEN ""
    ELSE IF Len(s) = 1 THEN (IF s = "\n" THEN " " ELSE s)
    ELSE NewlinesToSpaces(SubSeq(s, 1, Len(s) \div 2))
         \o NewlinesToSpaces(SubSeq(s, Len(s) \div 2 + 1, Len(s)))

\* str.isdigit(): non-empty and digits only
AllDigits(s) == \A i \in 1..Len(s) : IsDigitC(Ch(s, i))
IsDigitStr(s) == s # "" /\ AllDigits(s)

\* str.isalpha()
AllAlpha(s) == \A i \in 1..Len(s) : IsAlphaC(Ch(s, i))
IsAlphaStr(s) == s # "" /\ AllAlpha(s)

\* any(c.isalpha() for c in s)
HasAlpha(s) == \E i \in 1..Len(s) : IsAlphaC(Ch(s, i))

\* sub in s
Contains(s, sub) ==
    \E i \in 1..(Len(s) - Len(sub) + 1) : SubSeq(s, i, i + Len(sub) - 1) = sub
HasChar(s, c) == \E i \in 1..Len(s) : Ch(s, i) = c

\* str.split(): the whitespace-separated words of s, in order
WordStarts(s) ==
    {i \in 1..Len(s) : /\ Ch(s, i) \notin WhiteSpace
                       /\ (i = 1 \/ Ch(s, i - 1) \in WhiteSpace)}
WordFrom(s, i) ==
    SubSeq(s, i, MinOf({k \in (i + 1)..(Len(s) + 1) :
                           k = Len(s) + 1 \/ Ch(s, k) \in WhiteSpace}) - 1)
Split(s) ==
    [n \in 1..Cardinality(WordStarts(s)) |->
        WordFrom(s, CHOOSE i \in WordStarts(s) :
                        Cardinality({j \in WordStarts(s) : j <= i}) = n)]

\* " ".join(words)
RECURSIVE Join(_)
Join(words) ==
    IF words = <<>> THEN ""
    ELSE IF Len(words) = 1 THEN words[1]
    ELSE words[1] \o " " \o Join(Tail(words))

\* " ".join(words[1:])
JoinRest(words) == Join(Tail(words))

\* int(s) of a digit string
RECURSIVE IntOf(_, _)
IntOf(s, acc) ==
    IF s = "" THEN acc
    ELSE IntOf(Tail(s),
               acc * 10 + (CHOOSE d \in 0..9 : Ch("0123456789", d + 1) = Ch(s, 1)))
ToInt(s) == IntOf(s, 0)

DropLeadingZeros(s) ==
    LET I == {i \in 1..Len(s) : Ch(s, i) # "0"}
    IN  IF I = {} THEN "" ELSE SubSeq(s, MinOf(I), Len(s))

(***************************************************************************)
(* float(s) for the decimal literals the cells hold: an optional sign,     *)
(* digits with at most one point and at least one digit.  The model's      *)
(* cell values carry no exponent, "inf", "nan" or underscore forms.        *)
(***************************************************************************)
Unsigned(s) == IF s # "" /\ Ch(s, 1) \in {"+", "-"} THEN Tail(s) ELSE s
PointCount(s) == Cardinality({i \in 1..Len(s) : Ch(s, i) = "."})
IsFloatStr(s) ==
    LET u == Unsigned(Strip(s))
        d == RemoveChars(u, {"."})
    IN  /\ IsDigitStr(d)
        /\ PointCount(u) <= 1
\* float(s) = 0
FloatIsZero(s) == DropLeadingZeros(RemoveChars(Unsigned(Strip(s)), {"."})) = ""
\* the digits before the point
IntPart(s) ==
    LET u == Unsigned(Strip(s))
        p == IF HasChar(u, ".") THEN CHOOSE i \in 1..Len(u) : Ch(u, i) = "." ELSE Len(u) + 1
    IN  SubSeq(u, 1, p - 1)
\* abs(float(s)) < 1000
FloatBelow1000(s) == Len(DropLeadingZeros(IntPart(s))) <= 3

(***************************************************************************)
(* Content-shape classifiers.                                              *)
(***************************************************************************)
_looks_like_percentage_value(s) ==
    IF s = "" \/ Strip(s) = "-" THEN FALSE
    ELSE LET t == RemoveChars(Strip(s), {","})
         IN  IF t = "" THEN FALSE
             ELSE IF ~IsFloatStr(t) THEN FALSE
             ELSE IF FloatIsZero(t) THEN FALSE
             ELSE HasChar(t, ".") /\ FloatBelow1000(t)

_looks_like_large_number(s) ==
    IF s = "" \/ Strip(s) = "-" THEN FALSE
    ELSE LET t == RemoveChars(Strip(s), {",", " ", "."})
         IN  IF ~IsDigitStr(t) THEN FALSE ELSE Len(t) >= 4

_looks_like_change_value(s) ==
    IF s = "" THEN TRUE
    ELSE LET t == Strip(s)
         IN  IF t = "-" THEN TRUE
             ELSE LET u == RemoveChars(t, {",", " "})
                  IN  IF ~IsDigitStr(u) THEN FALSE ELSE Len(u) <= 15

_looks_like_stock_code(s) ==
    IF s = "" \/ Len(s) > 10 THEN FALSE
    ELSE LET t == MapUpper(Strip(s))
         IN  IF Len(t) < 2 THEN FALSE
             ELSE IF IsDigitStr(t) THEN FALSE
             ELSE \A i \in 1..Len(t) : IsAlnumC(Ch(t, i)) \/ Ch(t, i) \in {".", "-"}

_looks_like_no(s) ==
    IF s = "" THEN FALSE
    ELSE LET t == RemoveChars(Strip(s), {",", " "})
         IN  IsDigitStr(t) /\ Len(t) <= 6

_looks_like_company_name(s) ==
    IF s = "" \/ Len(s) < 10 THEN FALSE
    ELSE LET t == Strip(s)
         IN  \/ Contains(t, "Tbk")
             \/ Contains(t, ", PT")
             \/ Contains(t, "PT ")
             \/ (HasChar(t, ",") /\ Len(t) > 15)

_looks_like_text_not_number(s) ==
    IF s = "" \/ Strip(s) = "-" THEN FALSE
    ELSE LET t == Strip(s)
             cleaned == RemoveChars(t, {",", ".", " "})
         IN  IF IsDigitStr(cleaned) THEN FALSE
             ELSE IF _looks_like_percentage_value(t) THEN FALSE
             ELSE HasAlpha(t) /\ Len(t) > 2

SecuritiesKeywords ==
    {"SEKURITAS", "ASSET", "PT", "PT.", "LTD", "S/A", "INTERNATIONAL", "INDONESIA",
     "MIRAE", "MANDIRI", "SINARMAS", "CGS", "AJAIB", "INDOVEST", "ABADIMUKTI"}

_looks_like_securities_name(s) ==
    IF s = "" \/ Strip(s) = "-" THEN FALSE
    ELSE LET t == Strip(s)
             t_upper == MapUpper(t)
             has_keyword == \E kw \in SecuritiesKeywords : Contains(t_upper, kw)
         IN  IF Len(t) < 5 THEN FALSE
             ELSE IF /\ has_keyword
                     /\ ~_looks_like_percentage_value(t)
                     /\ ~_looks_like_large_number(t) THEN TRUE
             ELSE IF (Contains(t_upper, "PT") \/ Contains(t_upper, "PT.")) /\ Len(t) > 5
                  THEN ~_looks_like_percentage_value(t) /\ ~_looks_like_large_number(t)
             ELSE FALSE

_looks_like_person_name(s) ==
    IF s = "" \/ Strip(s) = "-" THEN FALSE
    ELSE LET t == Strip(s)
             words == Split(t)
         IN  IF _looks_like_securities_name(t) THEN FALSE
             ELSE IF Len(words) < 2 THEN FALSE
             ELSE /\ HasAlpha(t)
                  /\ ~_looks_like_percentage_value(t)
                  /\ ~_looks_like_large_number(t)
                  /\ ~_looks_like_change_value(t)
                  /\ Len(t) <= 50
                  /\ \A k \in 1..Len(words) : HasAlpha(words[k])

AddressKeywords == {"JL ", "JLN ", "KAV", "FLOOR", "RT/RW", "UNIT ", "GD ", "MENARA"}

\* the address test without the name and free-text classifiers
address_keywords_only(s) ==
    IF s = "" \/ Strip(s) = "-" THEN FALSE
    ELSE IF \/ _looks_like_large_number(s)
            \/ _looks_like_percentage_value(s)
            \/ _looks_like_change_value(s) THEN FALSE
    ELSE IF \E k \in AddressKeywords : Contains(MapUpper(Strip(s)), k) THEN TRUE
    ELSE Len(s) > 30 /\ HasChar(s, ",")
_looks_like_address_or_wrong_text(s) ==
    IF s = "" \/ Strip(s) = "-" THEN FALSE
    ELSE IF \/ _looks_like_large_number(s)
            \/ _looks_like_percentage_value(s)
            \/ _looks_like_change_value(s) THEN FALSE
    ELSE IF \/ _looks_like_securities_name(s)
            \/ _looks_like_person_name(s)
            \/ _looks_like_text_not_number(s) THEN TRUE
    ELSE IF \E k \in AddressKeywords : Contains(MapUpper(Strip(s)), k) THEN TRUE
    ELSE Len(s) > 30 /\ HasChar(s, ",")


(***************************************************************************)
(* Rows.  A row is the list `cells` of the source: 18 strings.             *)
(***************************************************************************)
TARGET_COLS == 18
Cols == 0..(TARGET_COLS - 1)

idx_jumlah1 == 11
idx_saham_gab1 == 12
idx_pct1 == 13
idx_jumlah2 == 14
idx_saham_gab2 == 15
idx_pct2 == 16
idx_perubahan == 17

Cell(cells, i) == cells[i + 1]
Put(cells, i, v) == [cells EXCEPT ![i + 1] = v]
\* Statement sequencing on a row: F runs on the row the statements before it
\* left behind.  Every corrector returns at once when the row has fewer than
\* 18 columns (if num_cols < 18: return).
Do(cells, F(_)) == IF Len(cells) < TARGET_COLS THEN cells ELSE F(cells)

\* get(i): (cells[i]).strip() or "-"
get(cells, i) == LET t == Strip(Cell(cells, i)) IN IF t = "" THEN "-" ELSE t

\* the last word of `words` satisfying a shape, "" (None) when there is none
LastPct(words) ==
    LET S == {k \in 1..Len(words) : _looks_like_percentage_value(words[k])}
    IN  IF S = {} THEN "" ELSE words[CHOOSE k \in S : \A m \in S : m <= k]
LastLargeNotPct(words) ==
    LET S == {k \in 1..Len(words) : /\ ~_looks_like_percentage_value(words[k])
                                    /\ _looks_like_large_number(words[k])}
    IN  IF S = {} THEN "" ELSE words[CHOOSE k \in S : \A m \in S : m <= k]
FirstLargeNotPct(words) ==
    LET S == {k \in 1..Len(words) : /\ ~_looks_like_percentage_value(words[k])
                                    /\ _looks_like_large_number(words[k])}
    IN  IF S = {} THEN "" ELSE words[MinOf(S)]
\* [p for p in parts if p != x]
RECURSIVE Without(_, _)
Without(words, x) ==
    IF words = <<>> THEN <<>>
    ELSE (IF words[1] = x THEN <<>> ELSE <<words[1]>>) \o Without(Tail(words), x)

\* the columns outside `skip` whose value is percentage-shaped
PctCols(cells, skip) ==
    {j \in Cols \ skip : _looks_like_percentage_value(get(cells, j))}

\* (v != "-" and v and _looks_like_large_number(v)) for the two share columns of a period
HasPeriodData(cells, idx_jumlah, idx_saham_gab) ==
    \/ (get(cells, idx_jumlah) # "-" /\ _looks_like_large_number(get(cells, idx_jumlah)))
    \/ (get(cells, idx_saham_gab) # "-" /\ _looks_like_large_number(get(cells, idx_saham_gab)))

(***************************************************************************)
(* Identity-column correctors.                                             *)
(***************************************************************************)
\* NO_KODE_EFEK_PATTERN = ^\s*(\d+)\s+(.*)$ on a stripped cell: the length of
\* the leading digit run when white space follows it, 0 when there is no match
DigitRun(s) ==
    MinOf({i \in 1..(Len(s) + 1) : i = Len(s) + 1 \/ ~IsDigitC(Ch(s, i))}) - 1
NO_KODE_EFEK_PATTERN(s) ==
    LET t == LStrip(s)
        n == DigitRun(t)
    IN  IF n > 0 /\ n < Len(t) /\ Ch(t, n + 1) \in WhiteSpace THEN n ELSE 0

no_kode_efek_left_joined(cells) == cells
_fix_no_kode_efek_cells(cells) ==
    LET col0 == Strip(Cell(cells, 0))
        col1 == Strip(Cell(cells, 1))
        n == NO_KODE_EFEK_PATTERN(col0)
        no_part == Strip(SubSeq(LStrip(col0), 1, n))
        rest == Strip(SubSeq(LStrip(col0), n + 1, Len(LStrip(col0))))
    IN  IF col0 = "" THEN cells
        ELSE IF n > 0
        THEN IF no_part # "" /\ rest # ""
             THEN LET c0 == Put(cells, 0, no_part)
                  IN  IF col1 = "" \/ col1 = "-" THEN Put(c0, 1, rest)
                      ELSE IF ~Contains(col1, rest) THEN Put(c0, 1, rest \o " " \o col1)
                      ELSE c0
             ELSE cells
        ELSE IF ~_looks_like_stock_code(col0) THEN cells
        ELSE IF _looks_like_no(col1) THEN Put(Put(cells, 0, col1), 1, col0)
        ELSE LET c0 == Put(cells, 0, "-")
             IN  IF col1 = "" \/ col1 = "-" THEN Put(c0, 1, col0) ELSE c0

_fix_kode_emiten_cells(cells) ==
    LET col1 == Strip(Cell(cells, 1))
        col2 == Strip(Cell(cells, 2))
    IN  IF col1 # "" /\ col2 = "" /\ _looks_like_company_name(col1)
        THEN Put(Put(cells, 1, "-"), 2, col1)
        ELSE cells

_fix_persentase_perubahan_cells(cells) ==
    LET val_perubahan == Strip(Cell(cells, idx_perubahan))
        val_pct1 == get(cells, idx_pct1)
        val_pct2 == get(cells, idx_pct2)
    IN  IF val_perubahan = "" \/ val_perubahan = "-" THEN cells
        ELSE IF ~_looks_like_percentage_value(val_perubahan) THEN cells
        ELSE IF val_pct1 = "-"
             THEN Put(Put(cells, idx_pct1, val_perubahan), idx_perubahan, "-")
        ELSE IF val_pct2 = "-"
             THEN Put(Put(cells, idx_pct2, val_perubahan), idx_perubahan, "-")
        ELSE cells

(***************************************************************************)
(* Split-value repair.                                                     *)
(***************************************************************************)
_fix_perubahan_split_percentage_then_number(cells) ==
    LET val17 == get(cells, idx_perubahan)
        parts == Split(val17)
        first == Strip(parts[1])
        second == Strip(JoinRest(parts))
        second_clean == RemoveChars(second, {",", ".", " "})
    IN  IF val17 = "-" THEN cells
        ELSE IF Len(parts) < 2 THEN cells
        ELSE IF ~_looks_like_percentage_value(first) THEN cells
        ELSE IF ~IsDigitStr(second_clean) THEN cells
        ELSE Put(Put(cells, idx_pct2, first), idx_perubahan, second)

split_percentage_cell(cells, idx_pct, idx_saham) ==
    LET val == get(cells, idx_pct)
        parts == Split(NewlinesToSpaces(val))
        pct_part == LastPct(parts)
        large_part == LastLargeNotPct(parts)
    IN  IF ~HasChar(val, "\n") THEN cells
        ELSE IF pct_part # "" /\ large_part # ""
             THEN LET c1 == Put(cells, idx_pct, pct_part)
                  IN  IF Strip(Cell(c1, idx_saham)) \in {"-", ""}
                      THEN Put(c1, idx_saham, large_part) ELSE c1
        ELSE IF pct_part # "" THEN Put(cells, idx_pct, pct_part)
        ELSE cells

_fix_split_percentage_cells(cells) ==
    Do(Do(cells, LAMBDA c : split_percentage_cell(c, 13, 12)),
       LAMBDA c : split_percentage_cell(c, 16, 15))

jumlah_saham_split_percentage(cells, idx_jumlah, idx_pct) ==
    LET val_jumlah == get(cells, idx_jumlah)
        parts == Split(val_jumlah)
        first_part == Strip(parts[1])
        first_is_pct == _looks_like_percentage_value(first_part)
        rest_parts == Strip(JoinRest(parts))
        pct_part == IF first_is_pct THEN first_part ELSE LastPct(parts)
        large_part == IF first_is_pct
                      THEN (IF _looks_like_large_number(rest_parts) THEN rest_parts ELSE "")
                      ELSE FirstLargeNotPct(parts)
        val_pct == get(cells, idx_pct)
        remaining == Without(parts, pct_part)
    IN  IF val_jumlah = "-" THEN cells
        ELSE IF Len(parts) < 2 THEN cells
        ELSE IF pct_part = "" THEN cells
        ELSE IF val_pct # "-" THEN cells
        ELSE LET c1 == Put(cells, idx_pct, pct_part)
             IN  IF large_part # "" THEN Put(c1, idx_jumlah, large_part)
                 ELSE IF remaining # <<>> THEN Put(c1, idx_jumlah, Join(remaining))
                 ELSE Put(c1, idx_jumlah, "-")

_fix_jumlah_saham_split_percentage(cells) ==
    Do(Do(cells, LAMBDA c : jumlah_saham_split_percentage(c, idx_jumlah1, idx_pct1)),
       LAMBDA c : jumlah_saham_split_percentage(c, idx_jumlah2, idx_pct2))


(***************************************************************************)
(* _fix_numeric_block_by_content, one operator per block of the function,  *)
(* composed in source order.                                               *)
(***************************************************************************)
\* Jumlah Saham / Saham Gabungan (11, 12, 14, 15) may not hold text
clear_text_cell(cells, idx_jar) ==
    IF get(cells, idx_jar) # "-" /\ _looks_like_address_or_wrong_text(get(cells, idx_jar))
    THEN Put(cells, idx_jar, "-") ELSE cells
clear_text_in_share_columns(cells) ==
    Do(Do(Do(Do(cells, LAMBDA c : clear_text_cell(c, 11)),
                LAMBDA c : clear_text_cell(c, 12)),
             LAMBDA c : clear_text_cell(c, 14)),
       LAMBDA c : clear_text_cell(c, 15))

is_text_in_pct1(val13) ==
    \/ _looks_like_text_not_number(val13)
    \/ _looks_like_securities_name(val13)
    \/ _looks_like_person_name(val13)
    \/ (/\ val13 # "-"
        /\ ~_looks_like_percentage_value(val13)
        /\ ~_looks_like_large_number(val13)
        /\ Len(val13) > 3)

\* the text is swapped with a percentage, and kept when there is none
fix_text_in_pct1_swap_only(cells) ==
    LET val13 == get(cells, idx_pct1)
        S == PctCols(cells, {idx_pct1, idx_pct2})
    IN  IF ~is_text_in_pct1(val13) THEN cells
        ELSE IF S # {}
             THEN Put(Put(cells, idx_pct1, get(cells, MinOf(S))), MinOf(S), val13)
        ELSE cells

\* Persentase (1) holds text: swap with the first percentage of the row
fix_text_in_pct1(cells) ==
    LET val13 == get(cells, idx_pct1)
        S == PctCols(cells, {idx_pct1, idx_pct2})
    IN  IF ~is_text_in_pct1(val13) THEN cells
        ELSE IF S # {}
             THEN Put(Put(cells, idx_pct1, get(cells, MinOf(S))), MinOf(S), val13)
        ELSE IF _looks_like_securities_name(val13) \/ _looks_like_person_name(val13)
             THEN Put(cells, idx_pct1, "-")
        ELSE cells

\* Persentase (1) blank or a large number: fetch the first percentage of the row
fill_blank_pct1(cells) ==
    LET val13_after == get(cells, idx_pct1)
        S == PctCols(cells, {idx_pct1, idx_pct2})
    IN  IF ~(\/ val13_after = "-"
             \/ (/\ ~_looks_like_percentage_value(val13_after)
                 /\ _looks_like_large_number(val13_after)))
        THEN cells
        ELSE IF S = {} THEN cells
        ELSE IF val13_after = "-"
             THEN Put(Put(cells, idx_pct1, get(cells, MinOf(S))), MinOf(S), "-")
        ELSE IF _looks_like_large_number(val13_after)
             THEN Put(Put(cells, idx_pct1, get(cells, MinOf(S))), MinOf(S), val13_after)
        ELSE cells

\* KOREKSI KHUSUS: the only percentage sits in (1) but only period 2 has data
move_pct1_to_pct2(cells) ==
    LET val13_check == get(cells, idx_pct1)
        val16_check == get(cells, idx_pct2)
        has_other_percentage == PctCols(cells, {idx_pct1, idx_pct2}) # {}
        has_period1_data == HasPeriodData(cells, idx_jumlah1, idx_saham_gab1)
        has_period2_data == HasPeriodData(cells, idx_jumlah2, idx_saham_gab2)
    IN  IF /\ _looks_like_percentage_value(val13_check)
           /\ val16_check = "-"
           /\ has_period2_data
           /\ ~has_period1_data
           /\ ~has_other_percentage
        THEN Put(Put(cells, idx_pct2, val13_check), idx_pct1, "-")
        ELSE cells

\* percentages_found: tuples <<idx, str, in_col>>, (1) then (2) then the rest
PctEntriesOutside(cells) ==
    LET S == PctCols(cells, {idx_pct1, idx_pct2})
    IN  [n \in 1..Cardinality(S) |->
            LET j == CHOOSE i \in S : Cardinality({k \in S : k <= i}) = n
            IN  <<j, get(cells, j), FALSE>>]
percentages_found(cells) ==
    (IF _looks_like_percentage_value(get(cells, idx_pct1))
     THEN << <<idx_pct1, get(cells, idx_pct1), TRUE>> >> ELSE <<>>)
    \o (IF _looks_like_percentage_value(get(cells, idx_pct2))
        THEN << <<idx_pct2, get(cells, idx_pct2), TRUE>> >> ELSE <<>>)
    \o PctEntriesOutside(cells)

\* Persentase (1) blank: take the first collected percentage that may be moved
place_found_in_pct1(cells, found) ==
    LET has_period2_data == HasPeriodData(cells, idx_jumlah2, idx_saham_gab2)
        Usable(e) == \/ (~e[3] /\ e[1] # idx_pct2)
                     \/ (e[3] /\ e[1] = idx_pct2 /\ ~has_period2_data)
        K == {k \in 1..Len(found) : Usable(found[k])}
        e == found[MinOf(K)]
    IN  IF get(cells, idx_pct1) # "-" \/ Len(found) = 0 THEN cells
        ELSE IF K = {} THEN cells
        ELSE IF ~e[3]
             THEN LET c1 == Put(cells, idx_pct1, e[2])
                  IN  IF e[1] # idx_perubahan THEN Put(c1, e[1], "-") ELSE c1
        ELSE Put(Put(cells, idx_pct1, e[2]), idx_pct2, "-")

\* Persentase (2) blank: first percentage of the row when period 2 has data,
\* otherwise the second collected percentage
place_found_in_pct2(cells, found) ==
    LET has_period2_data_after == HasPeriodData(cells, idx_jumlah2, idx_saham_gab2)
        S == PctCols(cells, {idx_pct1, idx_pct2})
        e == found[2]
    IN  IF get(cells, idx_pct2) # "-" THEN cells
        ELSE IF has_period2_data_after
             THEN IF S = {} THEN cells
                  ELSE LET c1 == Put(cells, idx_pct2, get(cells, MinOf(S)))
                       IN  IF MinOf(S) # idx_perubahan THEN Put(c1, MinOf(S), "-") ELSE c1
        ELSE IF Len(found) > 1
             THEN LET c1 == Put(cells, idx_pct2, e[2])
                  IN  IF ~e[3] /\ e[1] # idx_perubahan THEN Put(c1, e[1], "-") ELSE c1
        ELSE cells

\* KOREKSI: percentages in wrong columns, with the list collected beforehand
place_percentages(cells) ==
    LET found == percentages_found(cells)
    IN  Do(Do(cells, LAMBDA c : place_found_in_pct1(c, found)),
           LAMBDA c : place_found_in_pct2(c, found))

\* PENGECEKAN FINAL, first loop: Persentase (1) still blank
final_check_pct1(cells) ==
    LET has_period2_data_check == HasPeriodData(cells, idx_jumlah2, idx_saham_gab2)
        S == PctCols(cells, {idx_pct1} \cup
                            (IF has_period2_data_check THEN {idx_pct2} ELSE {}))
        j == MinOf(S)
    IN  IF S = {} THEN cells
        ELSE LET c1 == Put(cells, idx_pct1, get(cells, j))
             IN  IF j # idx_perubahan /\ ~(j = idx_pct2 /\ has_period2_data_check)
                 THEN Put(c1, j, "-") ELSE c1

\* PENGECEKAN FINAL, second loop: Persentase (2) blank while period 2 has data
final_check_pct2(cells) ==
    LET has_period2_data_final == HasPeriodData(cells, idx_jumlah2, idx_saham_gab2)
        S == PctCols(cells, {idx_pct1, idx_pct2})
        j == MinOf(S)
    IN  IF ~(get(cells, idx_pct2) = "-" /\ has_period2_data_final) THEN cells
        ELSE IF S = {} THEN cells
        ELSE LET c1 == Put(cells, idx_pct2, get(cells, j))
             IN  IF j # idx_perubahan THEN Put(c1, j, "-") ELSE c1

final_check(cells) ==
    IF get(cells, idx_pct1) = "-"
    THEN Do(Do(cells, final_check_pct1), final_check_pct2)
    ELSE cells

is_text_in_pct2(val16) ==
    \/ _looks_like_text_not_number(val16)
    \/ _looks_like_securities_name(val16)
    \/ (/\ val16 # "-"
        /\ ~_looks_like_percentage_value(val16)
        /\ ~_looks_like_large_number(val16)
        /\ Len(val16) > 3)

\* Persentase (2) holds text: swap with the first percentage of the row, else blank
fix_text_in_pct2(cells) ==
    LET val16 == get(cells, idx_pct2)
        S == PctCols(cells, {idx_pct1, idx_pct2})
    IN  IF ~is_text_in_pct2(val16) THEN cells
        ELSE IF S # {}
             THEN Put(Put(cells, idx_pct2, get(cells, MinOf(S))), MinOf(S), val16)
        ELSE Put(cells, idx_pct2, "-")

is_text_in_perubahan(val17) ==
    \/ _looks_like_text_not_number(val17)
    \/ _looks_like_person_name(val17)
    \/ _looks_like_securities_name(val17)
    \/ (/\ val17 # "-"
        /\ ~_looks_like_percentage_value(val17)
        /\ ~_looks_like_change_value(val17)
        /\ ~_looks_like_large_number(val17)
        /\ Len(val17) > 3)

\* Perubahan is blanked with "0", the value the lower-row pass writes
fix_text_in_perubahan_zero(cells) ==
    LET val17 == get(cells, idx_perubahan)
        S == {j \in 11..16 : /\ _looks_like_change_value(get(cells, j))
                             /\ ~_looks_like_large_number(get(cells, j))
                             /\ ~_looks_like_percentage_value(get(cells, j))}
        c1 == IF S # {}
              THEN Put(Put(cells, idx_perubahan, get(cells, MinOf(S))), MinOf(S), val17)
              ELSE cells
    IN  IF ~is_text_in_perubahan(val17) THEN cells
        ELSE IF S = {} \/ _looks_like_person_name(val17) \/ _looks_like_securities_name(val17)
             THEN Put(c1, idx_perubahan, "0")
        ELSE c1

\* Perubahan holds text: swap with a change-shaped value of block 11..16, and
\* blank it when nothing was swapped or the text is a person/securities name
fix_text_in_perubahan(cells) ==
    LET val17 == get(cells, idx_perubahan)
        S == {j \in 11..16 : /\ _looks_like_change_value(get(cells, j))
                             /\ ~_looks_like_large_number(get(cells, j))
                             /\ ~_looks_like_percentage_value(get(cells, j))}
        c1 == IF S # {}
              THEN Put(Put(cells, idx_perubahan, get(cells, MinOf(S))), MinOf(S), val17)
              ELSE cells
    IN  IF ~is_text_in_perubahan(val17) THEN cells
        ELSE IF S = {} \/ _looks_like_person_name(val17) \/ _looks_like_securities_name(val17)
             THEN Put(c1, idx_perubahan, "-")
        ELSE c1

_fix_numeric_block_by_content(cells) ==
    Do(Do(Do(Do(Do(Do(Do(Do(Do(Do(Do(cells,
        _fix_perubahan_split_percentage_then_number),
        _fix_split_percentage_cells),
        _fix_jumlah_saham_split_percentage),
        clear_text_in_share_columns),
        fix_text_in_pct1),
        fill_blank_pct1),
        move_pct1_to_pct2),
        place_percentages),
        final_check),
        fix_text_in_pct2),
        fix_text_in_perubahan)

(***************************************************************************)
(* The final per-row pass of build_table_with_header_from_pdf, one         *)
(* operator per block of the loop body, composed in source order.          *)
(***************************************************************************)
\* clear_cell_if_safe: a cell holding a large number is never blanked
clear_cell_if_safe(r, col_idx) ==
    IF _looks_like_large_number(get(r, col_idx)) THEN r ELSE Put(r, col_idx, "-")

\* the share columns may not hold an address or an account name
final_clear_text_cell(row_18, j_jar) ==
    LET v_jar == get(row_18, j_jar)
    IN  IF /\ v_jar # "-"
           /\ ~_looks_like_large_number(v_jar)
           /\ _looks_like_address_or_wrong_text(v_jar)
        THEN Put(row_18, j_jar, "-") ELSE row_18
final_clear_text_in_share_columns(row_18) ==
    Do(Do(Do(Do(row_18, LAMBDA c : final_clear_text_cell(c, idx_jumlah1)),
                LAMBDA c : final_clear_text_cell(c, idx_saham_gab1)),
             LAMBDA c : final_clear_text_cell(c, idx_jumlah2)),
       LAMBDA c : final_clear_text_cell(c, idx_saham_gab2))

\* Persentase (1) holding two percentages ("11.74 11.76") is split over (1) and (2)
final_split_two_percentages(row_18) ==
    LET val12_split == get(row_18, idx_pct1)
        pcts == SelectSeq(Split(val12_split), _looks_like_percentage_value)
    IN  IF ~HasChar(val12_split, " ") THEN row_18
        ELSE IF Len(pcts) >= 2 /\ get(row_18, idx_pct2) = "-"
             THEN Put(Put(row_18, idx_pct1, pcts[1]), idx_pct2, pcts[2])
        ELSE row_18

\* is_text_12 and is_text_15
final_is_text_in_pct(v) ==
    /\ v # "-"
    /\ ~_looks_like_percentage_value(v)
    /\ ~_looks_like_large_number(v)
    /\ (\/ _looks_like_text_not_number(v)
        \/ _looks_like_securities_name(v)
        \/ _looks_like_person_name(v)
        \/ Len(v) > 3)

final_fix_text_in_pct1(row_18) ==
    LET val12 == get(row_18, idx_pct1)
        S == PctCols(row_18, {idx_pct1, idx_pct2})
    IN  IF ~final_is_text_in_pct(val12) THEN row_18
        ELSE IF S # {}
             THEN Put(Put(row_18, idx_pct1, get(row_18, MinOf(S))), MinOf(S), val12)
        ELSE IF _looks_like_securities_name(val12) \/ _looks_like_person_name(val12)
             THEN Put(row_18, idx_pct1, "-")
        ELSE row_18

\* a leading percentage in Jumlah Saham goes to the blank percentage column
final_jumlah_split(row_18, idx_jumlah_17, idx_pct_17) ==
    LET val_jumlah_17 == get(row_18, idx_jumlah_17)
        parts == Split(val_jumlah_17)
        first_part == Strip(parts[1])
        rest_parts == Strip(JoinRest(parts))
    IN  IF val_jumlah_17 = "-" THEN row_18
        ELSE IF Len(parts) < 2 THEN row_18
        ELSE IF ~_looks_like_percentage_value(first_part) THEN row_18
        ELSE IF get(row_18, idx_pct_17) # "-" THEN row_18
        ELSE Put(Put(row_18, idx_pct_17, first_part), idx_jumlah_17,
                 IF rest_parts = "" THEN "-" ELSE rest_parts)
final_jumlah_split_percentage(row_18) ==
    Do(Do(row_18, LAMBDA c : final_jumlah_split(c, idx_jumlah1, idx_pct1)),
       LAMBDA c : final_jumlah_split(c, idx_jumlah2, idx_pct2))

final_fill_blank_pct1(row_18) ==
    LET val12_after == get(row_18, idx_pct1)
        S == PctCols(row_18, {idx_pct1, idx_pct2})
        j == MinOf(S)
    IN  IF ~(\/ val12_after = "-"
             \/ (/\ ~_looks_like_percentage_value(val12_after)
                 /\ _looks_like_large_number(val12_after)))
        THEN row_18
        ELSE IF S = {} THEN row_18
        ELSE IF val12_after = "-"
             THEN LET c1 == Put(row_18, idx_pct1, get(row_18, j))
                  IN  IF j = idx_perubahan THEN Put(c1, idx_perubahan, "-")
                      ELSE clear_cell_if_safe(c1, j)
        ELSE IF _looks_like_large_number(val12_after)
             THEN Put(Put(row_18, idx_pct1, get(row_18, j)), j, val12_after)
        ELSE row_18

\* KOREKSI KHUSUS SETELAH MERGE ALAMAT
final_move_pct1_to_pct2(row_18, has_period1_data_18, has_period2_data_18) ==
    LET val12_check == get(row_18, idx_pct1)
        val15_check == get(row_18, idx_pct2)
        has_other_percentage_17 == PctCols(row_18, {idx_pct1, idx_pct2}) # {}
    IN  IF /\ _looks_like_percentage_value(val12_check)
           /\ val15_check = "-"
           /\ has_period2_data_18
           /\ ~has_period1_data_18
           /\ ~has_other_percentage_17
        THEN Put(Put(row_18, idx_pct2, val12_check), idx_pct1, "-")
        ELSE row_18

\* KOREKSI 318: both periods have data, (1) filled, (2) blank, another percentage exists
koreksi_318(row_18, has_period1_data_18, has_period2_data_18) ==
    LET pct_in_col1 == get(row_18, idx_pct1)
        S == PctCols(row_18, {idx_pct1, idx_pct2})
        other_pct_col == MinOf(S)
    IN  IF /\ has_period1_data_18
           /\ has_period2_data_18
           /\ _looks_like_percentage_value(pct_in_col1)
           /\ get(row_18, idx_pct2) = "-"
           /\ S # {}
        THEN clear_cell_if_safe(
                 Put(Put(row_18, idx_pct1, get(row_18, other_pct_col)), idx_pct2, pct_in_col1),
                 other_pct_col)
        ELSE row_18

final_place_found_in_pct1(row_18, found, has_period2_data_for_pct1) ==
    LET Usable(e) == \/ (~e[3] /\ e[1] # idx_pct2)
                     \/ (e[3] /\ e[1] = idx_pct2 /\ ~has_period2_data_for_pct1)
        K == {k \in 1..Len(found) : Usable(found[k])}
        e == found[MinOf(K)]
    IN  IF get(row_18, idx_pct1) # "-" \/ Len(found) = 0 THEN row_18
        ELSE IF K = {} THEN row_18
        ELSE IF ~e[3]
             THEN LET c1 == Put(row_18, idx_pct1, e[2])
                  IN  IF e[1] # idx_perubahan THEN clear_cell_if_safe(c1, e[1]) ELSE c1
        ELSE Put(Put(row_18, idx_pct1, e[2]), idx_pct2, "-")

final_place_found_in_pct2(row_18, found) ==
    LET e == found[2]
    IN  IF get(row_18, idx_pct2) = "-" /\ Len(found) > 1
        THEN LET c1 == Put(row_18, idx_pct2, e[2])
             IN  IF ~e[3] /\ e[1] # idx_perubahan THEN clear_cell_if_safe(c1, e[1]) ELSE c1
        ELSE row_18

final_place_percentages(row_18, has_period2_data_18) ==
    LET found == percentages_found(row_18)
    IN  Do(Do(row_18, LAMBDA c : final_place_found_in_pct1(c, found, has_period2_data_18)),
           LAMBDA c : final_place_found_in_pct2(c, found))

\* PENGECEKAN FINAL SETELAH MERGE ALAMAT: (1) still blank and period 1 has data
pengecekan_final_pct1(row_18, has_period1_data_18, has_period2_data_final) ==
    LET S == PctCols(row_18, {idx_pct1} \cup
                             (IF has_period2_data_final THEN {idx_pct2} ELSE {}))
        j == MinOf(S)
    IN  IF ~(get(row_18, idx_pct1) = "-" /\ has_period1_data_18) THEN row_18
        ELSE IF S = {} THEN row_18
        ELSE LET c1 == Put(row_18, idx_pct1, get(row_18, j))
             IN  IF j # idx_perubahan /\ ~(j = idx_pct2 /\ has_period2_data_final)
                 THEN clear_cell_if_safe(c1, j) ELSE c1

\* Persentase (1) is blanked with the empty string of the raw rows
paksa_pct1_empty(row_18, has_period1_data_18) ==
    LET both_pct_filled == /\ _looks_like_percentage_value(get(row_18, idx_pct1))
                           /\ _looks_like_percentage_value(get(row_18, idx_pct2))
    IN  IF ~has_period1_data_18 /\ ~both_pct_filled
        THEN Put(row_18, idx_pct1, "") ELSE row_18

\* Paksa: without period-1 data Persentase (1) is blank unless both are filled
paksa_pct1_blank(row_18, has_period1_data_18) ==
    LET both_pct_filled == /\ _looks_like_percentage_value(get(row_18, idx_pct1))
                           /\ _looks_like_percentage_value(get(row_18, idx_pct2))
    IN  IF ~has_period1_data_18 /\ ~both_pct_filled
        THEN Put(row_18, idx_pct1, "-") ELSE row_18

\* PENGECEKAN: (2) blank while period 2 has data
pengecekan_pct2(row_18, has_period2_data_18) ==
    LET S == PctCols(row_18, {idx_pct1, idx_pct2})
        j == MinOf(S)
    IN  IF ~(get(row_18, idx_pct2) = "-" /\ has_period2_data_18) THEN row_18
        ELSE IF S = {} THEN row_18
        ELSE LET c1 == Put(row_18, idx_pct2, get(row_18, j))
             IN  IF j # idx_perubahan THEN clear_cell_if_safe(c1, j) ELSE c1

final_fix_text_in_pct2(row_18) ==
    LET val15 == get(row_18, idx_pct2)
        S == PctCols(row_18, {idx_pct1, idx_pct2})
    IN  IF ~final_is_text_in_pct(val15) THEN row_18
        ELSE IF S # {}
             THEN Put(Put(row_18, idx_pct2, get(row_18, MinOf(S))), MinOf(S), val15)
        ELSE IF ~_looks_like_percentage_value(val15) THEN Put(row_18, idx_pct2, "-")
        ELSE row_18

\* Koreksi Perubahan: the same test and swap as the numeric block uses
final_fix_text_in_perubahan(row_18) == fix_text_in_perubahan(row_18)

\* Perubahan may not repeat the percentage of Persentase (2)
perubahan_equals_pct2(row_18) ==
    LET val16_after == get(row_18, idx_perubahan)
        val_pct2_18 == get(row_18, idx_pct2)
    IN  IF /\ val16_after # "-"
           /\ val_pct2_18 # "-"
           /\ _looks_like_percentage_value(val16_after)
           /\ Strip(val16_after) = Strip(val_pct2_18)
        THEN Put(row_18, idx_perubahan, "-") ELSE row_18

\* Perubahan may not hold a single letter
perubahan_single_letter(row_18) ==
    LET v16 == get(row_18, idx_perubahan)
    IN  IF Len(Strip(v16)) = 1 /\ IsAlphaStr(Strip(v16))
        THEN Put(row_18, idx_perubahan, "-") ELSE row_18

\* the blocks after the period flags has_period1_data_18 / has_period2_data_18
\* have been computed
final_row_pass_with_flags(row_18) ==
    LET p1 == HasPeriodData(row_18, idx_jumlah1, idx_saham_gab1)
        p2 == HasPeriodData(row_18, idx_jumlah2, idx_saham_gab2)
    IN  Do(Do(Do(Do(Do(Do(Do(Do(Do(Do(row_18,
            LAMBDA c : final_move_pct1_to_pct2(c, p1, p2)),
            LAMBDA c : koreksi_318(c, p1, p2)),
            LAMBDA c : final_place_percentages(c, p2)),
            LAMBDA c : pengecekan_final_pct1(c, p1, p2)),
            LAMBDA c : paksa_pct1_blank(c, p1)),
            LAMBDA c : pengecekan_pct2(c, p2)),
            final_fix_text_in_pct2),
            final_fix_text_in_perubahan),
            perubahan_equals_pct2),
            perubahan_single_letter)

final_row_pass(row_18) ==
    Do(Do(Do(Do(Do(Do(row_18,
        final_clear_text_in_share_columns),
        final_split_two_percentages),
        final_fix_text_in_pct1),
        final_jumlah_split_percentage),
        final_fill_blank_pct1),
        final_row_pass_with_flags)

(***************************************************************************)
(* Tables.  A table is the list of rows; the raw rows' cluster y and page  *)
(* are carried through the cross-row correctors unchanged and are left out.*)
(***************************************************************************)
\* Statement sequencing on a table; every pass is a no-op on an empty table
DoT(data, F(_)) == IF data = <<>> THEN data ELSE F(data)

\* [F(row) for row in data]
MapRows(data, F(_)) == [i \in 1..Len(data) |-> F(data[i])]

\* a cell that is empty or "-" after stripping
IsBlank(v) == Strip(v) \in {"", "-"}
\* large number, percentage or change value
IsNumericShape(v) ==
    \/ _looks_like_large_number(v)
    \/ _looks_like_percentage_value(v)
    \/ _looks_like_change_value(v)

\* parts_by_col[j]: <<first, second>> when the cell joins two numeric values, else <<>>
parts_by_col(cells, j) ==
    LET val == Strip(Cell(cells, j))
        tok == Split(val)
        first == Strip(tok[1])
        second == Strip(JoinRest(tok))
    IN  IF val = "" \/ val = "-" \/ ~HasChar(val, " ") THEN <<>>
        ELSE IF Len(tok) < 2 THEN <<>>
        ELSE IF IsNumericShape(first) /\ IsNumericShape(second) THEN <<first, second>>
        ELSE <<>>

\* the one or two rows a raw row becomes
split_row_duplicate_numeric(cells) ==
    LET has_duplicate == \E j \in 11..17 : parts_by_col(cells, j) # <<>>
        row1 == [k \in 1..Len(cells) |->
                    IF (k - 1) \in 11..17 /\ parts_by_col(cells, k - 1) # <<>>
                    THEN parts_by_col(cells, k - 1)[1] ELSE cells[k]]
        row2 == [k \in 1..Len(cells) |->
                    IF (k - 1) \in 11..17
                    THEN (IF parts_by_col(cells, k - 1) # <<>>
                          THEN parts_by_col(cells, k - 1)[2] ELSE "-")
                    ELSE cells[k]]
    IN  IF has_duplicate THEN <<row1, row2>> ELSE <<cells>>

RECURSIVE _split_rows_duplicate_numeric(_)
_split_rows_duplicate_numeric(raw_data_rows) ==
    IF raw_data_rows = <<>> THEN <<>>
    ELSE split_row_duplicate_numeric(raw_data_rows[1])
         \o _split_rows_duplicate_numeric(Tail(raw_data_rows))

next_has_other_no(cells, next_cells) ==
    Strip(Cell(next_cells, 0)) # Strip(Cell(cells, 0))
\* a numeric cell (11..17) of the next row that is non-blank and differs
next_has_own_numeric(cells, next_cells) ==
    \E j \in 11..17 :
        LET nv == Strip(Cell(next_cells, j))
            rv == Strip(Cell(cells, j))
        IN  nv # "" /\ nv # "-" /\ nv # rv

same_entity(cells, next_cells) ==
    Strip(Cell(next_cells, 0)) = "" \/ Strip(Cell(next_cells, 0)) = Strip(Cell(cells, 0))

\* Pattern A: column 1 holds the company name, a following row has the stock code
pattern_A(cells, next_cells) ==
    /\ Strip(Cell(cells, 1)) # ""
    /\ Strip(Cell(cells, 2)) = ""
    /\ _looks_like_company_name(Strip(Cell(cells, 1)))
    /\ Strip(Cell(next_cells, 1)) # ""
    /\ _looks_like_stock_code(Strip(Cell(next_cells, 1)))
    /\ same_entity(cells, next_cells)

\* Pattern B: column 1 holds the stock code, a following row has the company name
pattern_B(cells, next_cells) ==
    /\ Strip(Cell(cells, 1)) # ""
    /\ Strip(Cell(cells, 2)) = ""
    /\ _looks_like_stock_code(Strip(Cell(cells, 1)))
    /\ Strip(Cell(next_cells, 1)) # ""
    /\ _looks_like_company_name(Strip(Cell(next_cells, 1)))
    /\ same_entity(cells, next_cells)

\* the empty cells outside `keep` are filled from the next row
fill_empty_from(cells, next_cells, keep) ==
    [k \in 1..Len(cells) |->
        IF (k - 1) \notin keep /\ Strip(cells[k]) = "" /\ Strip(next_cells[k]) # ""
        THEN next_cells[k] ELSE cells[k]]

merge_pattern_A(cells, next_cells) ==
    fill_empty_from(Put(Put(cells, 1, Strip(Cell(next_cells, 1))), 2, Strip(Cell(cells, 1))),
                    next_cells, {1, 2})
merge_pattern_B(cells, next_cells) ==
    fill_empty_from(Put(cells, 2, Strip(Cell(next_cells, 1))), next_cells, {2})

\* the offsets k (at most 3 rows ahead) at which row i merges with row i + k
merge_offsets(raw_data_rows, i) ==
    {k \in 1..3 : /\ i + k <= Len(raw_data_rows)
                  /\ ~next_has_own_numeric(raw_data_rows[i], raw_data_rows[i + k])
                  /\ (\/ pattern_A(raw_data_rows[i], raw_data_rows[i + k])
                      \/ pattern_B(raw_data_rows[i], raw_data_rows[i + k]))}

RECURSIVE merge_split_from(_, _)
merge_split_from(raw_data_rows, i) ==
    IF i > Len(raw_data_rows) THEN <<>>
    ELSE LET K == merge_offsets(raw_data_rows, i)
             k == MinOf(K)
             cells == raw_data_rows[i]
         IN  IF K = {} THEN <<cells>> \o merge_split_from(raw_data_rows, i + 1)
             ELSE IF pattern_A(cells, raw_data_rows[i + k])
                  THEN <<merge_pattern_A(cells, raw_data_rows[i + k])>>
                       \o merge_split_from(raw_data_rows, i + 1 + k)
             ELSE <<merge_pattern_B(cells, raw_data_rows[i + k])>>
                  \o merge_split_from(raw_data_rows, i + 1 + k)
_merge_split_kode_emiten_rows(raw_data_rows) == merge_split_from(raw_data_rows, 1)

\* only the No cells are compared
same_row_no(prev_cells, cells) ==
    Strip(Cell(prev_cells, 0)) = Strip(Cell(cells, 0))

\* the first num_cols cells are equal after stripping
same_row_content(prev_cells, cells) ==
    \A k \in 1..TARGET_COLS : Strip(prev_cells[k]) = Strip(cells[k])

RECURSIVE remove_duplicates_from(_, _, _)
remove_duplicates_from(raw_data_rows, i, result) ==
    IF i > Len(raw_data_rows) THEN result
    ELSE IF result # <<>> /\ same_row_content(result[Len(result)], raw_data_rows[i])
         THEN remove_duplicates_from(raw_data_rows, i + 1, result)
    ELSE remove_duplicates_from(raw_data_rows, i + 1, Append(result, raw_data_rows[i]))
_remove_duplicate_data_rows(raw_data_rows) == remove_duplicates_from(raw_data_rows, 1, <<>>)

(***************************************************************************)
(* Finalisation of the data rows: normalisation and the per-row fixes.     *)
(***************************************************************************)
\* padded_row = (list(row) + [""] * TARGET_COLS)[:TARGET_COLS]
PadRow(row, fill) ==
    [k \in 1..TARGET_COLS |-> IF k <= Len(row) THEN row[k] ELSE fill]

\* empty and "-" cells become "-", every other cell is stripped
normalized_row(row) ==
    [k \in 1..TARGET_COLS |->
        LET cell_str == Strip(PadRow(row, "")[k])
        IN  IF cell_str = "" \/ cell_str = "-" THEN "-" ELSE cell_str]

final_data_row(row) ==
    Do(Do(Do(Do(normalized_row(row),
        _fix_no_kode_efek_cells),
        _fix_kode_emiten_cells),
        _fix_persentase_perubahan_cells),
        _fix_numeric_block_by_content)

final_data_rows(data_rows) == MapRows(data_rows, final_data_row)

(***************************************************************************)
(* _merge_continuation_rows                                                *)
(***************************************************************************)
\* the next row starts a new record: its No is a number
starts_new_record(next_row) ==
    LET no_next == Strip(Cell(next_row, 0))
    IN  no_next # "" /\ no_next # "-" /\ _looks_like_no(no_next)

next_has_different_numeric(row, next_row) ==
    \E j \in 11..17 :
        LET nv == Strip(Cell(next_row, j))
            rv == Strip(Cell(row, j))
        IN  /\ nv # "" /\ nv # "-"
            /\ IsNumericShape(nv)
            /\ rv # "" /\ rv # "-" /\ nv # rv

\* the k-th smallest element of a set of integers
Nth(S, n) == CHOOSE i \in S : Cardinality({j \in S : j <= i}) = n

\* the values of the next row fill the empty cells of the row: the last empty
\* cells when they all fit, the first ones otherwise
merge_continuation_into(row, next_row) ==
    LET empty_idx == {j \in Cols : IsBlank(Cell(row, j))}
        value_idx == {j \in Cols : Cell(next_row, j) # "" /\ Strip(Cell(next_row, j)) # "-"}
        ne == Cardinality(empty_idx)
        nv == Cardinality(value_idx)
        start == ne - nv
        Pos(j) == Cardinality({e \in empty_idx : e <= j})
    IN  [k \in 1..Len(row) |->
            IF (k - 1) \notin empty_idx THEN row[k]
            ELSE IF ne >= nv
                 THEN (IF Pos(k - 1) > start
                       THEN Strip(Cell(next_row, Nth(value_idx, Pos(k - 1) - start)))
                       ELSE row[k])
            ELSE Strip(Cell(next_row, Nth(value_idx, Pos(k - 1))))]

\* the inner while loop: <<row, index of the first row not absorbed>>
RECURSIVE absorb_continuations(_, _, _)
absorb_continuations(rows_, k, row) ==
    IF k > Len(rows_) THEN <<row, k>>
    ELSE IF starts_new_record(rows_[k]) THEN <<row, k>>
    ELSE IF next_has_different_numeric(row, rows_[k]) THEN <<row, k>>
    ELSE absorb_continuations(rows_, k + 1, merge_continuation_into(row, rows_[k]))

RECURSIVE merge_continuation_from(_, _)
merge_continuation_from(rows_, i) ==
    IF i > Len(rows_) THEN <<>>
    ELSE LET a == absorb_continuations(rows_, i + 1, rows_[i])
         IN  <<a[1]>> \o merge_continuation_from(rows_, a[2])
_merge_continuation_rows(rows_) == merge_continuation_from(rows_, 1)

(***************************************************************************)
(* _dedupe_rows_fill_kode_efek                                             *)
(***************************************************************************)
\* same No, the first row without a stock code, the second with one
dedupe_pair(row, next_row) ==
    LET no_cur == Strip(Cell(row, 0))
        kode_cur == Strip(Cell(row, 1))
        kode_next == Strip(Cell(next_row, 1))
    IN  /\ no_cur # ""
        /\ no_cur = Strip(Cell(next_row, 0))
        /\ (kode_cur = "" \/ kode_cur = "-")
        /\ kode_next # ""
        /\ _looks_like_stock_code(kode_next)

\* a numeric cell of the second row that differs from a value of the first
second_differs_from_value(row, next_row) ==
    \E j \in 11..17 :
        LET nv == Strip(Cell(next_row, j))
            rv == Strip(Cell(row, j))
        IN  nv # "" /\ nv # "-" /\ rv # "" /\ rv # "-" /\ nv # rv
second_has_own_numeric(row, next_row) ==
    \E j \in 11..17 :
        LET nv == Strip(Cell(next_row, j))
        IN  nv # "" /\ nv # "-" /\ nv # Strip(Cell(row, j))

\* the blank cells of columns `cols` are copied from the next row
fill_blank_from(row, next_row, cols) ==
    [k \in 1..Len(row) |->
        IF /\ (k - 1) \in cols
           /\ (row[k] = "" \/ Strip(row[k]) = "-")
           /\ next_row[k] # "" /\ Strip(next_row[k]) # "-"
        THEN next_row[k] ELSE row[k]]

RECURSIVE dedupe_from(_, _)
dedupe_from(rows_, i) ==
    IF i > Len(rows_) THEN <<>>
    ELSE IF i + 1 <= Len(rows_) /\ dedupe_pair(rows_[i], rows_[i + 1])
         THEN IF second_has_own_numeric(rows_[i], rows_[i + 1])
              THEN <<fill_blank_from(rows_[i], rows_[i + 1], 1..10), rows_[i + 1]>>
                   \o dedupe_from(rows_, i + 2)
              ELSE <<fill_blank_from(Put(rows_[i], 1, Strip(Cell(rows_[i + 1], 1))),
                                     rows_[i + 1], 2..17)>>
                   \o dedupe_from(rows_, i + 2)
    ELSE <<rows_[i]>> \o dedupe_from(rows_, i + 1)
_dedupe_rows_fill_kode_efek(rows_) == dedupe_from(rows_, 1)

\* KOREKSI FINAL: the numeric block is corrected again after merge and dedupe
refix_numeric_block(rows_) == MapRows(rows_, _fix_numeric_block_by_content)

\* row_18 = [str(c).strip() if c else "-" for c in row_18]
row_18_of(row) ==
    [k \in 1..TARGET_COLS |->
        IF PadRow(row, "")[k] = "" THEN "-" ELSE Strip(PadRow(row, "")[k])]
data_18_of(rows_) == MapRows(rows_, row_18_of)

(***************************************************************************)
(* The passes over adjacent rows with the same No.  Each pass visits the   *)
(* pairs (i, i + 1) in order and writes into the table it reads.           *)
(***************************************************************************)
idx_no_18 == 0

SetRow(data, i, row) == [data EXCEPT ![i] = row]

\* the pair is skipped unless both rows carry the same non-blank No
same_no(row_upper, row_lower) ==
    /\ get(row_upper, idx_no_18) = get(row_lower, idx_no_18)
    /\ get(row_upper, idx_no_18) # "-"

\* KOREKSI BARIS KEMBAR NO
twin_no_step(data, i) ==
    LET row_upper == data[i]
        row_lower == data[i + 1]
        pct1_upper == get(row_upper, idx_pct1)
        pct2_upper == get(row_upper, idx_pct2)
        pct1_lower == get(row_lower, idx_pct1)
        pct2_lower == get(row_lower, idx_pct2)
    IN  IF ~same_no(row_upper, row_lower) THEN data
        ELSE IF /\ _looks_like_percentage_value(pct1_upper)
                /\ pct2_upper = "-"
                /\ _looks_like_percentage_value(pct1_lower)
                /\ _looks_like_percentage_value(pct2_lower)
                /\ Strip(pct1_upper) = Strip(pct2_lower)
             THEN SetRow(data, i, Put(Put(row_upper, idx_pct1, pct1_lower), idx_pct2, pct1_upper))
        ELSE data
\* for i in range(len(data_18) - 1)
RECURSIVE twin_no_from(_, _)
twin_no_from(data, i) ==
    IF Len(data) = 0 \/ i >= Len(data) THEN data
    ELSE twin_no_from(twin_no_step(data, i), i + 1)
twin_no_pass(data) == twin_no_from(data, 1)

\* merged percentage cells: a blank percentage of the upper row is filled from the lower row
upper_fill_step(data, i) ==
    LET row_upper == data[i]
        row_lower == data[i + 1]
        pct1_l == get(row_lower, idx_pct1)
        pct2_l == get(row_lower, idx_pct2)
        u1 == IF get(row_upper, idx_pct1) = "-" /\ _looks_like_percentage_value(pct1_l)
              THEN Put(row_upper, idx_pct1, pct1_l) ELSE row_upper
        u2 == IF get(row_upper, idx_pct2) = "-" /\ _looks_like_percentage_value(pct2_l)
              THEN Put(u1, idx_pct2, pct2_l) ELSE u1
    IN  IF ~same_no(row_upper, row_lower) THEN data ELSE SetRow(data, i, u2)
RECURSIVE upper_fill_from(_, _)
upper_fill_from(data, i) ==
    IF Len(data) = 0 \/ i >= Len(data) THEN data
    ELSE upper_fill_from(upper_fill_step(data, i), i + 1)
upper_fill_pass(data) == upper_fill_from(data, 1)

(***************************************************************************)
(* The lower-row pass: Jumlah Saham (1)/(2) and Perubahan of the lower row *)
(* of a same-No pair.                                                      *)
(***************************************************************************)
\* Pass awal: Jumlah of the lower row from a Saham Gabungan of the lower row
fill_jumlah_from_sg(row_lower, row_upper, idx_j, sg_l, sg_u) ==
    LET j1_u == get(row_upper, idx_jumlah1)
        j2_u == get(row_upper, idx_jumlah2)
        j_u == get(row_upper, idx_j)
        both_upper_empty == j1_u = "-" /\ j2_u = "-"
    IN  IF get(row_lower, idx_j) = "-" /\ sg_l # "-" /\ _looks_like_large_number(sg_l)
        THEN IF sg_l = j2_u \/ sg_l = j1_u THEN row_lower
             ELSE IF (j_u # "-" /\ sg_l # sg_u) \/ both_upper_empty
                  THEN Put(row_lower, idx_j, sg_l)
             ELSE row_lower
        ELSE row_lower

pass_awal(row_lower0, row_upper) ==
    LET sg1_l == get(row_lower0, idx_saham_gab1)
        sg2_l == get(row_lower0, idx_saham_gab2)
        sg1_u == get(row_upper, idx_saham_gab1)
        sg2_u == get(row_upper, idx_saham_gab2)
    IN  Do(Do(Do(Do(row_lower0,
            LAMBDA r : fill_jumlah_from_sg(r, row_upper, idx_jumlah1, sg1_l, sg1_u)),
            LAMBDA r : fill_jumlah_from_sg(r, row_upper, idx_jumlah2, sg2_l, sg2_u)),
            LAMBDA r : fill_jumlah_from_sg(r, row_upper, idx_jumlah1, sg2_l, sg2_u)),
            LAMBDA r : fill_jumlah_from_sg(r, row_upper, idx_jumlah2, sg1_l, sg1_u))

\* rows i + 2, i + 3, ... scanned while their No is blank or the pair's No
RECURSIVE scan_end(_, _, _)
scan_end(data, k, no_upper) ==
    IF k > Len(data) THEN k
    ELSE IF get(data[k], idx_no_18) # "-" /\ get(data[k], idx_no_18) # no_upper THEN k
    ELSE scan_end(data, k + 1, no_upper)

\* rows_to_scan: <<row, is_lower>>, the lower row, the rows after it, the upper row
rows_to_scan(data, i, row_lower) ==
    <<<<row_lower, TRUE>>>>
    \o [n \in 1..(scan_end(data, i + 2, get(data[i], idx_no_18)) - (i + 2)) |->
           <<data[i + 1 + n], TRUE>>]
    \o <<<<data[i], FALSE>>>>

\* the columns of a scanned row that contribute to large_vals_by_col
large_cols(row_src, is_lower, j1_u, j2_u) ==
    {c \in Cols :
        /\ (is_lower \/ c \notin {idx_jumlah1, idx_jumlah2})
        /\ get(row_src, c) # "-"
        /\ _looks_like_large_number(get(row_src, c))
        /\ ~_looks_like_percentage_value(get(row_src, c))
        /\ ~(~is_lower /\ j1_u # "-" /\ get(row_src, c) \in {j1_u, j2_u})}

\* the columns of a scanned row that contribute to change_vals
change_cols(row_src, is_lower) ==
    {c \in Cols :
        /\ (is_lower \/ c \notin {idx_jumlah1, idx_jumlah2})
        /\ get(row_src, c) # "-"
        /\ c # idx_perubahan
        /\ _looks_like_change_value(get(row_src, c))
        /\ ~_looks_like_large_number(get(row_src, c))}

\* [row[c] for c in sorted(S)]
ValuesAt(row_src, S) == [n \in 1..Cardinality(S) |-> get(row_src, Nth(S, n))]

RECURSIVE Concat(_)
Concat(seqs) == IF seqs = <<>> THEN <<>> ELSE seqs[1] \o Concat(Tail(seqs))

\* large_vals after the sort: lower rows before the upper row, columns 0..10
\* before 11..17, then by column; equal keys keep the scan order
large_vals_of(scan, j1_u, j2_u) ==
    LET lower == SelectSeq(scan, LAMBDA e : e[2])
        upper == SelectSeq(scan, LAMBDA e : ~e[2])
        LowerAt(c) == Concat([n \in 1..Len(lower) |->
                          IF c \in large_cols(lower[n][1], TRUE, j1_u, j2_u)
                          THEN <<get(lower[n][1], c)>> ELSE <<>>])
        UpperAt(c) == Concat([n \in 1..Len(upper) |->
                          IF c \in large_cols(upper[n][1], FALSE, j1_u, j2_u)
                          THEN <<get(upper[n][1], c)>> ELSE <<>>])
    IN  Concat([n \in 1..TARGET_COLS |-> LowerAt(n - 1)])
        \o Concat([n \in 1..TARGET_COLS |-> UpperAt(n - 1)])

change_vals_of(scan) ==
    Concat([n \in 1..Len(scan) |-> ValuesAt(scan[n][1], change_cols(scan[n][1], scan[n][2]))])

\* next((x for x in seq if Ok(x)), default)
FirstOr(seq, Ok(_), default) ==
    LET K == {k \in 1..Len(seq) : Ok(seq[k])}
    IN  IF K = {} THEN default ELSE seq[MinOf(K)]

\* 247 bawah: when the upper Jumlah Saham (1) is blank the lower one is blanked
blank_j1_like_upper(row_lower, j1_u) ==
    IF j1_u = "-" THEN Put(row_lower, idx_jumlah1, "-") ELSE row_lower

\* the candidate large value is written to the needed Jumlah Saham cells; "" is None
fill_jumlah_candidates(row_lower, row_upper, large_vals, need_j1, need_j2) ==
    LET j1_u == get(row_upper, idx_jumlah1)
        j2_u == get(row_upper, idx_jumlah2)
        sg1_u == get(row_upper, idx_saham_gab1)
        sg2_u == get(row_upper, idx_saham_gab2)
        _ok_candidate_j1(v) == v \notin {j1_u, j2_u, sg1_u, sg2_u}
        _ok_candidate_j2(v) == v \notin {j1_u, sg1_u, sg2_u}
        for_j1 == IF need_j1 THEN FirstOr(large_vals, _ok_candidate_j1, "") ELSE ""
        candidate == IF need_j2 /\ for_j1 = ""
                     THEN FirstOr(large_vals, _ok_candidate_j2, "") ELSE for_j1
        other == FirstOr(large_vals, LAMBDA x : x # candidate /\ _ok_candidate_j2(x), candidate)
        with_j1 == IF need_j1 THEN Put(row_lower, idx_jumlah1, candidate) ELSE row_lower
    IN  IF ~(need_j1 \/ need_j2) \/ candidate = "" THEN row_lower
        ELSE IF ~need_j2 THEN with_j1
        ELSE IF need_j1 /\ Len(large_vals) >= 2 THEN Put(with_j1, idx_jumlah2, other)
        ELSE Put(with_j1, idx_jumlah2, candidate)

\* Fallback Jumlah Saham (2) from the upper row
fallback_jumlah2(row_lower, row_upper, need_j2) ==
    LET j1_u == get(row_upper, idx_jumlah1)
        j2_u == get(row_upper, idx_jumlah2)
        sg2_u == get(row_upper, idx_saham_gab2)
    IN  IF ~(need_j2 /\ get(row_lower, idx_jumlah2) = "-") THEN row_lower
        ELSE IF j1_u # "-" /\ j2_u # "-" /\ _looks_like_large_number(j2_u)
             THEN Put(row_lower, idx_jumlah2, j2_u)
        ELSE IF j1_u # "-" /\ sg2_u # "-" /\ _looks_like_large_number(sg2_u)
             THEN Put(row_lower, idx_jumlah2, sg2_u)
        ELSE row_lower

\* "0" is written whether the upper row has a Perubahan value or not
fill_perubahan_always_zero(row_lower, row_upper, change_vals, need_p) ==
    LET no_lower_str == Strip(get(row_lower, idx_no_18))
        K == {k \in 1..Len(change_vals) :
                 /\ Strip(change_vals[k]) # no_lower_str
                 /\ Len(Strip(change_vals[k])) <= 4
                 /\ IsDigitStr(Strip(change_vals[k]))}
    IN  IF ~need_p THEN row_lower
        ELSE IF K # {} THEN Put(row_lower, idx_perubahan, Strip(change_vals[MinOf(K)]))
        ELSE IF get(row_lower, idx_perubahan) = "-"
             THEN Put(row_lower, idx_perubahan, "0")
        ELSE row_lower

\* Perubahan of the lower row: a short number of the scanned rows that is not
\* the row's No; "0" when there is none and the upper Perubahan is not blank
fill_perubahan(row_lower, row_upper, change_vals, need_p) ==
    LET no_lower_str == Strip(get(row_lower, idx_no_18))
        K == {k \in 1..Len(change_vals) :
                 /\ Strip(change_vals[k]) # no_lower_str
                 /\ Len(Strip(change_vals[k])) <= 4
                 /\ IsDigitStr(Strip(change_vals[k]))}
        upper_perubahan_empty == Strip(get(row_upper, idx_perubahan)) = "-"
    IN  IF ~need_p THEN row_lower
        ELSE IF K # {} THEN Put(row_lower, idx_perubahan, Strip(change_vals[MinOf(K)]))
        ELSE IF get(row_lower, idx_perubahan) = "-" /\ ~upper_perubahan_empty
             THEN Put(row_lower, idx_perubahan, "0")
        ELSE row_lower

\* a single letter in Perubahan of the lower row becomes "0"
lower_single_letter(row_lower) ==
    LET pl_now == get(row_lower, idx_perubahan)
    IN  IF Len(Strip(pl_now)) = 1 /\ IsAlphaStr(Strip(pl_now))
        THEN Put(row_lower, idx_perubahan, "0") ELSE row_lower

\* the lower row after the collection of candidates
lower_row_filled(data, i, row_lower) ==
    LET row_upper == data[i]
        j1_u == get(row_upper, idx_jumlah1)
        j2_u == get(row_upper, idx_jumlah2)
        need_j1 == get(row_lower, idx_jumlah1) = "-"
        need_j2 == get(row_lower, idx_jumlah2) = "-"
        need_p == get(row_lower, idx_perubahan) = "-"
        scan == rows_to_scan(data, i, row_lower)
        large_vals == large_vals_of(scan, j1_u, j2_u)
        change_vals == change_vals_of(scan)
    IN  IF ~(need_j1 \/ need_j2 \/ need_p) THEN row_lower
        ELSE Do(Do(Do(Do(Do(row_lower,
                 LAMBDA r : blank_j1_like_upper(r, j1_u)),
                 LAMBDA r : fill_jumlah_candidates(r, row_upper, large_vals,
                                                   need_j1 /\ j1_u # "-", need_j2)),
                 LAMBDA r : fallback_jumlah2(r, row_upper, need_j2)),
                 LAMBDA r : fill_perubahan(r, row_upper, change_vals, need_p)),
                 lower_single_letter)

lower_row_step(data, i) ==
    IF ~same_no(data[i], data[i + 1]) THEN data
    ELSE SetRow(data, i + 1,
                Do(Do(data[i + 1],
                      LAMBDA r : pass_awal(r, data[i])),
                      LAMBDA r : lower_row_filled(data, i, r)))

RECURSIVE lower_row_from(_, _)
lower_row_from(data, i) ==
    IF Len(data) = 0 \/ i >= Len(data) THEN data
    ELSE lower_row_from(lower_row_step(data, i), i + 1)
lower_row_pass(data) == lower_row_from(data, 1)

(***************************************************************************)
(* Pass akhir: Jumlah Saham (1)/(2) of the later rows of a No group, from  *)
(* any row of the group.                                                   *)
(***************************************************************************)
\* the key of no_to_indices under which row idx is filed; "" when it is not filed
group_no(data, idx) ==
    IF get(data[idx], idx_no_18) # "-" THEN get(data[idx], idx_no_18)
    ELSE IF idx > 1 /\ get(data[idx - 1], idx_no_18) # "-"
         THEN get(data[idx - 1], idx_no_18)
    ELSE ""

\* no_to_indices[no]
indices_of(data, no) == {i \in 1..Len(data) : group_no(data, i) = no}

\* the large, non-percentage values of the group, in row and column order
large_in_group(data, indices) ==
    Concat([n \in 1..Cardinality(indices) |->
               LET r == data[Nth(indices, n)]
               IN  ValuesAt(r, {c \in Cols : /\ get(r, c) # "-"
                                             /\ _looks_like_large_number(get(r, c))
                                             /\ ~_looks_like_percentage_value(get(r, c))})])

\* the row idx of a group, filled from the group; "" is None
group_fill_row(data, idx, indices) ==
    LET first_row == data[MinOf(indices)]
        j1_first == get(first_row, idx_jumlah1)
        j2_first == get(first_row, idx_jumlah2)
        sg1_first == get(first_row, idx_saham_gab1)
        sg2_first == get(first_row, idx_saham_gab2)
        row == data[idx]
        j1 == get(row, idx_jumlah1)
        j2 == get(row, idx_jumlah2)
        is_duplicate_of_first == /\ j1 = j1_first /\ j2 = j2_first
                                 /\ (j1_first # "-" \/ j2_first # "-")
        need_fill_j1 == j1 = "-" \/ is_duplicate_of_first
        need_fill_j2 == j2 = "-" \/ is_duplicate_of_first
        large == large_in_group(data, indices)
        candidate_j1 == FirstOr(large, LAMBDA v : v \notin {j1_first, j2_first}, "")
        in_large == \E k \in 1..Len(large) : large[k] = j2_first
        fresh_j2 == IF j1_first = "-" /\ in_large /\ ~is_duplicate_of_first
                    THEN j2_first
                    ELSE FirstOr(large, LAMBDA v : v \notin {j1_first, j2_first,
                                                             sg1_first, sg2_first}, "")
        candidate_j2 == IF fresh_j2 = "" THEN candidate_j1 ELSE fresh_j2
        with_j1 == IF candidate_j1 # "" /\ need_fill_j1
                   THEN Put(row, idx_jumlah1, candidate_j1) ELSE row
    IN  IF ~need_fill_j1 /\ ~need_fill_j2 THEN row
        ELSE IF need_fill_j2 /\ candidate_j2 # "" THEN Put(with_j1, idx_jumlah2, candidate_j2)
        ELSE with_j1

\* the groups are disjoint and a group reads only its own rows, so the rows
\* are visited in table order: within a group that is the order of indices[1:]
group_fill_step(data, idx) ==
    LET no == group_no(data, idx)
        indices == indices_of(data, no)
    IN  IF no = "" \/ Cardinality(indices) < 2 \/ idx = MinOf(indices) THEN data
        ELSE SetRow(data, idx, group_fill_row(data, idx, indices))

RECURSIVE group_fill_from(_, _)
group_fill_from(data, idx) ==
    IF Len(data) = 0 \/ idx > Len(data) THEN data
    ELSE group_fill_from(group_fill_step(data, idx), idx + 1)
group_fill_pass(data) == group_fill_from(data, 1)

\* the final per-row pass over the table
final_rows_pass(data) == MapRows(data, final_row_pass)

(***************************************************************************)
(* The stages of build_table_with_header_from_pdf, in the order the        *)
(* function runs them on the extracted rows.                               *)
(***************************************************************************)
\* L1640-1644: the correctors of the raw rows
raw_row_correctors(raw_data_rows) ==
    _remove_duplicate_data_rows(
        _merge_split_kode_emiten_rows(
            _split_rows_duplicate_numeric(raw_data_rows)))

\* L1749-1795: width normalisation, per-row correctors, continuation merge,
\* deduplication, the re-run of the numeric block and the stripping to data_18
finalise_rows(data_rows) ==
    data_18_of(
        refix_numeric_block(
            _dedupe_rows_fill_kode_efek(
                _merge_continuation_rows(
                    final_data_rows(data_rows)))))

\* L2143-2399: the four passes over neighbouring rows with the same No
same_no_passes(data_18) ==
    group_fill_pass(lower_row_pass(upper_fill_pass(twin_no_pass(data_18))))

\* L1749-2399: everything from data_rows to the returned data
cascade(data_rows) ==
    same_no_passes(final_rows_pass(finalise_rows(data_rows)))

(***************************************************************************)
(* The tables the runs start from.  Cells of extracted rows are stripped   *)
(* and blank cells are "" (_normalize_cell); every string below is a       *)
(* stripped span text.                                                     *)
(***************************************************************************)
\* the cell values tried, in the order they are added when NumValues grows
AllValues ==
    <<"5.24", "ANDRIANSYAH PRAYITNO", "2,000,000", "BKSL", "318",
      "PT MIRAE SEKURITAS", "L", "343", "11.76", "36.67 2,703">>
NumValues == 7
CellValues == {AllValues[i] : i \in 1..MinOf({NumValues, Len(AllValues)})}

\* the columns of a one-row table that are edited
EditCols == {0, 11, 12, 13, 14, 16, 17}

BlankRow == [k \in 1..TARGET_COLS |-> ""]

\* a fully populated record: every cell holds a one-token or name value
FullRow ==
    <<"318", "BKSL", "PT ABC Tbk", "ADI SUKO", "ADI SUKO", "ADI SUKO", "JL RAYA 5",
      "DKI", "ID", "D", "L", "2,150,000", "2,170,000", "1.4",
      "2,170,000", "2,176,000", "1.6", "343">>

\* one-row tables: a blank row with one or two cells set
OneRowTables ==
    {<<Put(Put(BlankRow, c1, v1), c2, v2)>> :
        c1 \in EditCols, c2 \in EditCols, v1 \in CellValues, v2 \in CellValues}

\* the upper row of a pair: the full record, as is, without a Perubahan value,
\* or with a holder name in its first percentage column
UpperRows ==
    {FullRow, Put(FullRow, 17, ""), Put(FullRow, 13, "ANDRIANSYAH PRAYITNO")}

\* the lower row of a pair: the same No (or none) and one other cell
LowerRows ==
    {Put(Put(BlankRow, 0, no), c, v) :
        no \in {"318", ""}, c \in {1, 11, 17}, v \in CellValues}

TwoRowTables == {<<u, l>> : u \in UpperRows, l \in LowerRows}

\* Scenario E: the full record followed by a row with the same No and only
\* a share count that the full record does not hold in that column
ShareCounts == {"2,000,000", "2,150,000", "2,176,000"}
ScenarioERows ==
    UNION {{Put(Put(BlankRow, 0, FullRow[1]), c, v) :
                v \in {w \in ShareCounts : w # Cell(FullRow, c)}} :
           c \in {11, 12, 14, 15}}
IsScenarioE(t) == Len(t) = 2 /\ t[1] = FullRow /\ t[2] \in ScenarioERows

\* the rows as extracted, before the correctors of the raw rows: the full
\* record (as is, with a cell joining two numbers, or split over a name row
\* and a code row) followed by a second row
RawUpperRows ==
    {FullRow,
     Put(FullRow, 11, "2,150,000 2,000,000"),
     Put(Put(FullRow, 1, "PT ABC Tbk"), 2, ""),
     Put(FullRow, 2, "")}
RawLowerRows ==
    ScenarioERows \cup {FullRow, Put(FullRow, 14, "2,000,000")}
    \cup {Put(Put(BlankRow, 0, no), 1, v) : no \in {"318", ""}, v \in {"BKSL", "PT ABC Tbk"}}
RawTables == {<<u, l>> : u \in RawUpperRows, l \in RawLowerRows}

(***************************************************************************)
(* The run of build_table_with_header_from_pdf from the extracted rows to  *)
(* the returned data, followed by a second run of the cascade on the       *)
(* returned data.                                                          *)
(***************************************************************************)
NoFn == <<"", <<>>, <<>>>>
NoGeo == <<>>

Init ==
    /\ \/ pc = "raw_data_rows" /\ input \in RawTables
       \/ pc = "data_rows" /\ input \in OneRowTables \cup TwoRowTables
    /\ run = 1
    /\ rows = input
    /\ out1 = <<>>
    /\ fn = NoFn
    /\ geo = NoGeo

\* L1640-1747: the correctors of the raw rows; data_rows are their cells
RawRowCorrectors ==
    /\ pc = "raw_data_rows"
    /\ rows' = raw_row_correctors(rows)
    /\ pc' = "data_rows"
    /\ UNCHANGED <<run, input, out1, fn, geo>>

\* L1749-1795
FinaliseRows ==
    /\ pc = "data_rows"
    /\ rows' = finalise_rows(rows)
    /\ pc' = "data_18"
    /\ UNCHANGED <<run, input, out1, fn, geo>>

\* L1819-2141
FinalRowPass ==
    /\ pc = "data_18"
    /\ rows' = final_rows_pass(rows)
    /\ pc' = "same_no"
    /\ UNCHANGED <<run, input, out1, fn, geo>>

\* L2143-2406
SameNoPasses ==
    /\ pc = "same_no"
    /\ rows' = same_no_passes(rows)
    /\ out1' = IF run = 1 THEN rows' ELSE out1
    /\ pc' = "done"
    /\ UNCHANGED <<run, input, fn, geo>>

\* the cascade is applied a second time, to the data the first run returned
Rerun ==
    /\ pc = "done"
    /\ run = 1
    /\ run' = 2
    /\ rows' = out1
    /\ pc' = "data_rows"
    /\ UNCHANGED <<input, out1, fn, geo>>

Next ==
    \/ RawRowCorrectors
    \/ FinaliseRows
    \/ FinalRowPass
    \/ SameNoPasses
    \/ Rerun

Spec == Init /\ [][Next]_vars

(***************************************************************************)
(* Properties of the run.                                                  *)
(***************************************************************************)
IsName(v) == _looks_like_person_name(v) \/ _looks_like_securities_name(v)

\* the whitespace-separated tokens of a cell, of a row and of a table
TokensOf(v) == {Split(v)[i] : i \in 1..Len(Split(v))}
RowTokens(cells) == UNION {TokensOf(cells[k]) : k \in 1..Len(cells)}
TableTokens(t) == UNION {RowTokens(t[i]) : i \in 1..Len(t)}

\* the table the current run of the cascade started from
Source == IF run = 1 THEN input ELSE out1

C3_Idempotent ==
    (pc = "done" /\ run = 2) => rows = out1

\* C4: every cell of every row of the returned data is a non-empty string that
\* is not whitespace only: a value or the sentinel "-".
C4_NoEmptyCell ==
    pc = "done" =>
        \A i \in 1..Len(rows) :
            /\ Len(rows[i]) = TARGET_COLS
            /\ \A k \in 1..TARGET_COLS : Strip(rows[i][k]) # ""

\* a run has completed on a table with an empty cell, a cell was blanked by the
\* final pass, and the returned row holds "-" in both places
C4_Witness ==
    /\ pc = "done"
    /\ run = 1
    /\ Len(rows) = Len(input)
    /\ \E i \in 1..Len(rows) :
          /\ \E k \in 1..TARGET_COLS : input[i][k] = "" /\ rows[i][k] = "-"
          /\ \E k \in 1..TARGET_COLS : input[i][k] # "" /\ rows[i][k] = "-"

DashRow == [k \in 1..TARGET_COLS |-> "-"]

\* the cell values tried: the values above and cells that join two tokens
RowValues == CellValues \cup {"36.67 2,703", "12.5 PT"}
RowCols == {0, 11, 13, 14, 16, 17}

\* a normalized row with a value in a percentage column and up to two more cells
RowInputs ==
    {Put(Put(Put(DashRow, c2, v2), c3, v3), c1, v1) :
        c1 \in {idx_pct1, idx_pct2}, v1 \in RowValues,
        c2 \in RowCols, v2 \in RowValues, c3 \in RowCols, v3 \in {"5.24", "2,000,000", "-"}}

InitRow ==
    /\ pc = "row"
    /\ fn \in {<<"", r, <<>>>> : r \in RowInputs}
    /\ run = 1
    /\ input = <<>>
    /\ rows = <<>>
    /\ out1 = <<>>
    /\ geo = NoGeo

FixNumericBlock ==
    /\ pc = "row"
    /\ fn' = <<"_fix_numeric_block_by_content", fn[2], _fix_numeric_block_by_content(fn[2])>>
    /\ pc' = "row_done"
    /\ UNCHANGED <<run, input, rows, out1, geo>>

NextRow == FixNumericBlock

SpecRow == InitRow /\ [][NextRow]_vars

\* the number of times token t occurs in the cells of a row
TokenCount(cells, t) ==
    Cardinality({<<k, i>> \in (1..Len(cells)) \X (1..3) :
                    i <= Len(Split(cells[k])) /\ Split(cells[k])[i] = t})

\* C6, with every source cleared: every write moves a value or token and
\* clears or swaps its source, or sets "-": no token occurs in the result
\* more often than in the argument
C6_MovesOnly ==
    pc = "row_done" =>
        \A t \in RowTokens(fn[3]) \ {"-"} : TokenCount(fn[3], t) <= TokenCount(fn[2], t)

\* C6: _fix_numeric_block_by_content fabricates no value: the row keeps its
\* width and every whitespace-separated token of its result is a token of the
\* argument row or "-"; a write moves or copies a token of the row, or sets "-".
C6_NoFabricatedToken ==
    pc = "row_done" =>
        /\ Len(fn[3]) = Len(fn[2])
        /\ RowTokens(fn[3]) \subseteq RowTokens(fn[2]) \cup {"-"}

\* a percentage was moved into Persentase (2) and its source cell cleared
C6_Witness ==
    /\ pc = "row_done"
    /\ \E j \in Cols \ {idx_pct1, idx_pct2, idx_perubahan} :
          /\ _looks_like_percentage_value(Cell(fn[2], j))
          /\ Cell(fn[3], j) = "-"
          /\ Cell(fn[2], idx_pct2) = "-"
          /\ Cell(fn[3], idx_pct2) = Cell(fn[2], j)

\* the row held a person name in percentage column c
NameIn(c) == _looks_like_person_name(Cell(fn[2], c))
\* a percentage-shaped value, or token, in a cell of the row other than c
PctValueElsewhere(c) ==
    \E j \in Cols \ {c} : _looks_like_percentage_value(Cell(fn[2], j))
PctTokenElsewhere(c) ==
    \E j \in Cols \ {c} : \E t \in TokensOf(Cell(fn[2], j)) : _looks_like_percentage_value(t)

cx0(edges, j) == edges[j + 1]
cx1(edges, j) == edges[j + 2]

\* the overlap is measured to the farther of the two right ends
span_overlap_to_max(edges, j, x0, x1) ==
    LET overlap_start == MaxOf({x0, cx0(edges, j)})
        overlap_end == MaxOf({x1, cx1(edges, j)})
    IN  IF overlap_start < overlap_end THEN overlap_end - overlap_start ELSE 0

\* the width of the overlap of the span with column j, 0 when there is none
span_overlap(edges, j, x0, x1) ==
    LET overlap_start == MaxOf({x0, cx0(edges, j)})
        overlap_end == MinOf({x1, cx1(edges, j)})
    IN  IF overlap_start < overlap_end THEN overlap_end - overlap_start ELSE 0

\* the first column with the largest overlap; -1 is None
best_col(edges, x0, x1) ==
    LET most == MaxOf({span_overlap(edges, j, x0, x1) : j \in Cols})
    IN  IF most = 0 THEN -1
        ELSE MinOf({j \in Cols : span_overlap(edges, j, x0, x1) = most})

\* the fallback: the column that holds mid_x = (x0 + x1) / 2
fallback_col(edges, x0, x1) ==
    LET hit == {j \in Cols : \/ (2 * cx0(edges, j) <= x0 + x1 /\ x0 + x1 <= 2 * cx1(edges, j))
                             \/ x0 + x1 < 2 * cx0(edges, j)}
        j == MinOf(hit)
    IN  IF hit = {} THEN TARGET_COLS - 1
        ELSE IF 2 * cx0(edges, j) <= x0 + x1 /\ x0 + x1 <= 2 * cx1(edges, j) THEN j
        ELSE MaxOf({0, j - 1})

column_index_for_span(edges, x0, x1) ==
    IF best_col(edges, x0, x1) # -1 THEN best_col(edges, x0, x1)
    ELSE fallback_col(edges, x0, x1)

\* boundaries: 18 columns of the given widths, from x = 10
EdgesOf(widths) ==
    [i \in 1..(TARGET_COLS + 1) |->
        10 + Cardinality({<<k, u>> \in (1..(i - 1)) \X (1..MaxOf({widths[n] : n \in 1..TARGET_COLS})) :
                             u <= widths[k]})]
ColumnWidths ==
    {[k \in 1..TARGET_COLS |-> 3],
     [k \in 1..TARGET_COLS |-> IF k % 2 = 0 THEN 1 ELSE 4],
     [k \in 1..TARGET_COLS |-> IF k <= 11 THEN 2 ELSE 5],
     [k \in 1..TARGET_COLS |-> IF k = 1 THEN 6 ELSE 1]}
BoundarySets == {EdgesOf(w) : w \in ColumnWidths}

MaxSpanWidth == 6
SpansOn(edges) ==
    {<<x0, x0 + w>> : x0 \in (edges[1] - 2)..(edges[TARGET_COLS + 1] + 2), w \in 0..MaxSpanWidth}
\* the spans processed second: a wide one, a narrow one and one left of the table
SecondSpans == {<<12, 20>>, <<30, 31>>, <<5, 8>>}

\* geo = <<edges, spans, columns>>: columns[i] is the column of span i, -1 before
InitColumns ==
    /\ pc = "columns"
    /\ \E edges \in BoundarySets : \E s1 \in SpansOn(edges) : \E s2 \in SecondSpans :
          geo = <<edges, <<s1, s2>>, <<-1, -1>>>>
    /\ run = 1
    /\ input = <<>>
    /\ rows = <<>>
    /\ out1 = <<>>
    /\ fn = NoFn

\* one span is given its column; the spans are taken in any order
AssignColumn ==
    /\ pc = "columns"
    /\ \E i \in 1..2 :
          /\ geo[3][i] = -1
          /\ geo' = <<geo[1], geo[2],
                      [geo[3] EXCEPT ![i] = column_index_for_span(geo[1], geo[2][i][1], geo[2][i][2])]>>
    /\ UNCHANGED <<pc, run, input, rows, out1, fn>>

NextColumns == AssignColumn

SpecColumns == InitColumns /\ [][NextColumns]_vars

StrictlyInside(edges, j, x0, x1) == cx0(edges, j) < x0 /\ x0 <= x1 /\ x1 < cx1(edges, j)

\* C5: a span whose extent [x0, x1] lies strictly inside the interval of column
\* j is assigned column j, whichever span was processed first.
C5_StrictlyInsideColumn ==
    pc = "columns" =>
        \A i \in 1..2 : \A j \in Cols :
            (geo[3][i] # -1 /\ StrictlyInside(geo[1], j, geo[2][i][1], geo[2][i][2]))
                => geo[3][i] = j

\* a span strictly inside a column was assigned after the other span, which
\* overlaps several columns, and a span of no width was assigned by the fallback
C5_Witness ==
    /\ pc = "columns"
    /\ geo[3][1] # -1
    /\ geo[3][2] # -1
    /\ \E j \in Cols \ {0} : StrictlyInside(geo[1], j, geo[2][1][1], geo[2][1][2])
    /\ geo[2][1][1] = geo[2][1][2]
    /\ \E j \in Cols : geo[3][2] # j /\ span_overlap(geo[1], j, geo[2][2][1], geo[2][2][2]) > 0

(***************************************************************************)
(* build_table_from_spans (L2409-2460), the flat table that                *)
(* build_table_with_header_from_pdf returns when it finds no header row or *)
(* no blue data span (L1330-1332, L1377-1379, L1508-1510).  A span is      *)
(* <<page, x0, y0, x1, y1, text>>; the loop state is kept in geo.          *)
(***************************************************************************)
ROW_Y_TOLERANCE == 2
COLUMN_X_GAP == 12

\* key(s) = (page, (y0 + y1) / 2, x0), compared with the middle doubled
SpanKeyLess(a, b) ==
    \/ a[1] < b[1]
    \/ a[1] = b[1] /\ a[3] + a[5] < b[3] + b[5]
    \/ a[1] = b[1] /\ a[3] + a[5] = b[3] + b[5] /\ a[2] < b[2]

\* sorted(span_items, key=key), for spans with distinct keys
RECURSIVE SortedSpans(_)
SortedSpans(S) ==
    IF S = {} THEN <<>>
    ELSE LET first == CHOOSE a \in S : \A b \in S \ {a} : SpanKeyLess(a, b)
         IN  <<first>> \o SortedSpans(S \ {first})

\* the spans of a fallback page: up to three per line on two lines, each
\* narrow (a cell of its own) or wide (touching the next span), some empty
FlatSlots == {<<y, x>> : y \in {100, 110}, x \in {10, 40, 70}}
FlatText(x) == IF x = 10 THEN "318" ELSE IF x = 40 THEN "BKSL" ELSE " "
FlatSpan(slot, w) == <<1, slot[2], slot[1] - 4, slot[2] + w, slot[1] + 4, FlatText(slot[2])>>
FlatSpanSets ==
    {{FlatSpan(slot, choice[slot]) : slot \in {t \in FlatSlots : choice[t] # 0}} :
        choice \in [FlatSlots -> {0, 10, 25}]}

NoLoop == [todo |-> <<>>, current_row_y2 |-> -1, current_row_cells |-> <<>>,
           current_cell_texts |-> <<>>, last_x1 |-> -1]

InitFlat ==
    /\ pc = "flat"
    /\ input \in FlatSpanSets
    /\ geo = NoLoop
    /\ rows = <<>>
    /\ run = 1
    /\ out1 = <<>>
    /\ fn = NoFn

\* L2411-2426: an empty list returns [], else the spans are sorted
SortFlat ==
    /\ pc = "flat"
    /\ IF input = {}
       THEN pc' = "flat_done" /\ geo' = geo
       ELSE pc' = "flat_loop" /\ geo' = [NoLoop EXCEPT !.todo = SortedSpans(input)]
    /\ UNCHANGED <<run, input, rows, out1, fn>>

\* current_cell_texts joined into a cell, when there are any
WithCell(cells, texts) == IF texts = <<>> THEN cells ELSE Append(cells, Join(texts))

\* L2428-2454: one iteration of the loop over the sorted spans
AddSpan ==
    /\ pc = "flat_loop"
    /\ geo.todo # <<>>
    /\ LET s == Head(geo.todo)
           text == Strip(s[6])
           mid_y2 == s[3] + s[5]
           new_row == /\ geo.current_row_y2 # -1
                      /\ (\/ mid_y2 - geo.current_row_y2 > 2 * ROW_Y_TOLERANCE
                          \/ geo.current_row_y2 - mid_y2 > 2 * ROW_Y_TOLERANCE)
           closed == WithCell(geo.current_row_cells, geo.current_cell_texts)
           cells1 == IF new_row THEN <<>> ELSE geo.current_row_cells
           texts1 == IF new_row THEN <<>> ELSE geo.current_cell_texts
           last1 == IF new_row THEN -1 ELSE geo.last_x1
           new_col == last1 # -1 /\ s[2] - last1 > COLUMN_X_GAP
       IN  IF text = ""
           THEN geo' = [geo EXCEPT !.todo = Tail(geo.todo)] /\ rows' = rows
           ELSE /\ rows' = IF new_row /\ closed # <<>> THEN Append(rows, closed) ELSE rows
                /\ geo' = [todo |-> Tail(geo.todo),
                           current_row_y2 |-> mid_y2,
                           current_row_cells |-> IF new_col THEN WithCell(cells1, texts1) ELSE cells1,
                           current_cell_texts |-> IF new_col THEN <<text>> ELSE Append(texts1, text),
                           last_x1 |-> s[4]]
    /\ UNCHANGED <<pc, run, input, out1, fn>>

\* L2456-2460: the last cell and the last row are flushed
FlushFlat ==
    /\ pc = "flat_loop"
    /\ geo.todo = <<>>
    /\ LET closed == WithCell(geo.current_row_cells, geo.current_cell_texts)
       IN  rows' = IF closed # <<>> THEN Append(rows, closed) ELSE rows
    /\ pc' = "flat_done"
    /\ UNCHANGED <<run, input, out1, fn, geo>>

NextFlat ==
    \/ SortFlat
    \/ AddSpan
    \/ FlushFlat

SpecFlat == InitFlat /\ [][NextFlat]_vars

\* C1: every row of the emitted table has as many cells as its first row, the
\* header row; here for the flat table of the fallback.
C1_RowsHaveHeaderWidth ==
    pc = "flat_done" => \A i \in 1..Len(rows) : Len(rows[i]) = Len(rows[1])

(***************************************************************************)
(* Merged cells of build_table_with_header_from_pdf: detection (L1512-1560)*)
(* placement of the blue spans into raw rows (L1562-1637), the raw-row     *)
(* correctors (L1639-1644) and the propagation of every merged span into   *)
(* the rows it overlaps (L1646-1737).  A span is <<page, x0, y0, x1, y1,   *)
(* text>>, a raw row is <<cluster_y, cells, page>>; y_mid and cluster_y    *)
(* are kept doubled so that they stay integers.                            *)
(***************************************************************************)
MaxPage == 2

y_mid2(s) == s[3] + s[5]
x_mid2(s) == s[2] + s[4]

RECURSIVE Ascending(_)
Ascending(S) == IF S = {} THEN <<>> ELSE <<MinOf(S)>> \o Ascending(S \ {MinOf(S)})

\* L1490-1506: the blue spans with a text other than "" and "-", in the order
\* of _group_spans_into_rows (L1286)
all_blue_spans(spans) ==
    SortedSpans({<<s[1], s[2], s[3], s[4], s[5], Strip(s[6])>> :
                    s \in {t \in spans : Strip(t[6]) # "" /\ Strip(t[6]) # "-"}})

\* L1513: sorted(set(y_mid))
y_positions(blue) == Ascending({y_mid2(blue[i]) : i \in 1..Len(blue)})

\* L1514-1520: the median of the gaps between neighbouring y positions, doubled
avg_row_gap2(blue) ==
    LET ys == y_positions(blue)
        row_gaps == [i \in 1..(Len(ys) - 1) |-> ys[i + 1] - ys[i]]
        below(g) == Cardinality({i \in 1..Len(row_gaps) : row_gaps[i] < g})
        upto(g) == Cardinality({i \in 1..Len(row_gaps) : row_gaps[i] <= g})
        median_gap == CHOOSE g \in {row_gaps[i] : i \in 1..Len(row_gaps)} :
                          below(g) <= Len(row_gaps) \div 2 /\ Len(row_gaps) \div 2 < upto(g)
    IN  IF Len(ys) > 1 THEN (IF median_gap > 0 THEN median_gap ELSE 20) ELSE 20

\* L1523-1532: a y position opens a cluster unless one lies within the tolerance
RECURSIVE clusters_from(_, _)
clusters_from(ys, clusters) ==
    IF ys = <<>> THEN clusters
    ELSE IF \E k \in 1..Len(clusters) :
                /\ Head(ys) - clusters[k] <= 2 * ROW_Y_TOLERANCE
                /\ clusters[k] - Head(ys) <= 2 * ROW_Y_TOLERANCE
         THEN clusters_from(Tail(ys), clusters)
    ELSE clusters_from(Tail(ys), Append(clusters, Head(ys)))
y_clusters(blue) == clusters_from(y_positions(blue), <<>>)

\* L1541-1545
overlapping_clusters(s, clusters) ==
    SelectSeq(clusters, LAMBDA cluster_y : /\ 2 * (s[3] - ROW_Y_TOLERANCE) <= cluster_y
                                           /\ cluster_y <= 2 * (s[5] + ROW_Y_TOLERANCE))

\* L1548: more than one cluster, or taller than 1.3 row gaps, or taller than 10
is_merged(s, clusters, gap2) ==
    \/ Len(overlapping_clusters(s, clusters)) > 1
    \/ 20 * (s[5] - s[3]) > 13 * gap2
    \/ s[5] - s[3] > 10

\* L1535-1560
merged_cells_info(edges, blue, clusters, gap2) ==
    LET merged == SelectSeq(blue, LAMBDA s : is_merged(s, clusters, gap2))
    IN  [i \in 1..Len(merged) |->
            [col |-> column_index_for_span(edges, merged[i][2], merged[i][4]),
             y0 |-> merged[i][3],
             y1 |-> merged[i][5],
             data |-> merged[i][6],
             page |-> merged[i][1],
             overlapping_clusters |-> overlapping_clusters(merged[i], clusters)]]

\* L1568-1576: the first of the nearest clusters
Dist(a, b) == IF a < b THEN b - a ELSE a - b
nearest_cluster(y2, clusters) ==
    LET C == {clusters[k] : k \in 1..Len(clusters)}
    IN  MinOf({c \in C : \A d \in C : Dist(y2, c) <= Dist(y2, d)})

\* L1444-1452
_normalize_cell(s) == IF Strip(s) = "-" THEN "" ELSE Join(Split(s))

\* L1595: sorted(spans_in_row, key=x_mid), a stable sort
RECURSIVE sorted_by_x_mid(_)
sorted_by_x_mid(spans) ==
    IF spans = <<>> THEN <<>>
    ELSE LET least == MinOf({x_mid2(spans[i]) : i \in 1..Len(spans)})
             first == MinOf({i \in 1..Len(spans) : x_mid2(spans[i]) = least})
         IN  <<spans[first]>>
             \o sorted_by_x_mid(SubSeq(spans, 1, first - 1) \o SubSeq(spans, first + 1, Len(spans)))

\* L1601-1621: one span is put into its column, or kept as a pending percentage;
\* placed is <<cells, pending_percentages>>
place_span(edges, placed, s) ==
    LET text == Strip(s[6])
        col_idx == column_index_for_span(edges, s[2], s[4])
        cells == placed[1]
    IN  IF text = "" THEN placed
        ELSE IF col_idx >= 11 /\ _looks_like_percentage_value(text)
             THEN <<cells, Append(placed[2], text)>>
        ELSE IF Cell(cells, col_idx) # ""
             THEN <<Put(cells, col_idx, Cell(cells, col_idx) \o " " \o text), placed[2]>>
        ELSE <<Put(cells, col_idx, text), placed[2]>>

RECURSIVE place_spans(_, _, _)
place_spans(edges, placed, spans) ==
    IF spans = <<>> THEN placed
    ELSE place_spans(edges, place_span(edges, placed, Head(spans)), Tail(spans))

\* L1593-1634: the cells of one row
row_cells_of(edges, spans_in_row) ==
    LET placed == place_spans(edges, <<[k \in 1..TARGET_COLS |-> ""], <<>>>>,
                              sorted_by_x_mid(spans_in_row))
        pending_percentages == placed[2]
        with1 == IF Len(pending_percentages) >= 1
                 THEN Put(placed[1], idx_pct1, pending_percentages[1]) ELSE placed[1]
        with2 == IF Len(pending_percentages) >= 2
                 THEN Put(with1, idx_pct2, pending_percentages[2]) ELSE with1
    IN  [k \in 1..TARGET_COLS |-> _normalize_cell(with2[k])]

\* L1563-1637: the spans grouped by (page, nearest cluster), the rows in the
\* order of the keys, rows without text left out
placed_rows(edges, blue, clusters) ==
    LET key(s) == <<s[1], nearest_cluster(y_mid2(s), clusters)>>
        keys == {key(blue[i]) : i \in 1..Len(blue)}
        sorted_row_keys == SortedSpans({<<k[1], 0, k[2], 0, 0>> : k \in keys})
        all_rows == [n \in 1..Len(sorted_row_keys) |->
                        LET k == <<sorted_row_keys[n][1], sorted_row_keys[n][3]>>
                        IN  <<k[2], row_cells_of(edges, SelectSeq(blue, LAMBDA s : key(s) = k)), k[1]>>]
    IN  SelectSeq(all_rows, LAMBDA r : \E k \in 1..TARGET_COLS : Strip(r[2][k]) # "")

\* L1640-1644 on (cluster_y, cells, page) tuples: every corrector works on the
\* first num_cols cells and hands cluster_y and page of a row on to the rows it
\* makes of it, so the two ride along as cells behind the last column
raw_tuple_correctors(raw_data_rows) ==
    LET corrected == raw_row_correctors(
                         [i \in 1..Len(raw_data_rows) |->
                             raw_data_rows[i][2] \o <<ToString(raw_data_rows[i][1]),
                                                      ToString(raw_data_rows[i][3])>>])
    IN  [i \in 1..Len(corrected) |->
            <<ToInt(corrected[i][TARGET_COLS + 1]),
              SubSeq(corrected[i], 1, TARGET_COLS),
              ToInt(corrected[i][TARGET_COLS + 2])>>]

\* the block is taken to start one column early
from_column_10(col_idx) == 10 <= col_idx /\ col_idx <= 17
behind_column_11(col_idx) == 12 <= col_idx /\ col_idx <= 17
\* L1678, L1713: the columns of the numeric block, which are not merged cells
in_numeric_block(col_idx) == 11 <= col_idx /\ col_idx <= 17

\* L1664-1669: the row lies on one of the clusters the span overlaps
is_overlapping(m, gap2, row_data) ==
    IF m.overlapping_clusters # <<>>
    THEN \E k \in 1..Len(m.overlapping_clusters) : m.overlapping_clusters[k] = row_data[1]
    ELSE /\ 10 * m.y0 - 2 * gap2 <= 5 * row_data[1]
         /\ 5 * row_data[1] <= 10 * m.y1 + 2 * gap2

\* L1679-1706: the row is not the first row of the merge block
is_second_or_later_in_block(m, raw_data_rows, row_idx) ==
    LET row_data == raw_data_rows[row_idx]
        prev_data == raw_data_rows[row_idx - 1]
        no_prev == Strip(Cell(prev_data[2], 0))
        no_cur == Strip(Cell(row_data[2], 0))
        by_position ==
            \E k \in 2..Len(m.overlapping_clusters) :
                /\ m.overlapping_clusters[k] = row_data[1]
                /\ \A n \in 1..(k - 1) : m.overlapping_clusters[n] # row_data[1]
    IN  \/ by_position
        \/ /\ row_idx > 1
           /\ prev_data[3] = row_data[3]
           /\ \/ /\ 2 * (m.y0 - 1) <= prev_data[1] /\ prev_data[1] <= 2 * (m.y1 + 1)
                 /\ 2 * (m.y0 - 1) <= row_data[1] /\ row_data[1] <= 2 * (m.y1 + 1)
                 /\ prev_data[1] < row_data[1]
              \/ prev_data[1] = row_data[1]
              \/ no_prev # "" /\ no_prev = no_cur
              \/ no_prev # "" /\ (no_cur = "" \/ no_cur = "-")

\* L1720-1727: a lower row (same or blank No) keeps its own Jumlah Saham
keeps_own_jumlah_saham(m, raw_data_rows, row_idx) ==
    /\ m.col \in {11, 14}
    /\ row_idx > 1
    /\ LET no_prev == Strip(Cell(raw_data_rows[row_idx - 1][2], 0))
           no_cur == Strip(Cell(raw_data_rows[row_idx][2], 0))
       IN  no_prev # "" /\ (no_cur = no_prev \/ no_cur = "" \/ no_cur = "-")

\* L1657-1735: the body of the loop for one row
propagate_into_row(m, gap2, raw_data_rows, row_idx) ==
    LET row_data == raw_data_rows[row_idx]
        current_cell_data == Strip(Cell(row_data[2], m.col))
        written == [raw_data_rows EXCEPT ![row_idx] =
                       <<row_data[1], Put(row_data[2], m.col, m.data), row_data[3]>>]
    IN  IF row_data[3] # m.page \/ ~is_overlapping(m, gap2, row_data) THEN raw_data_rows
        ELSE IF in_numeric_block(m.col) /\ is_second_or_later_in_block(m, raw_data_rows, row_idx)
             THEN raw_data_rows
        ELSE IF /\ in_numeric_block(m.col)
                /\ current_cell_data # ""
                /\ (\/ _looks_like_large_number(current_cell_data)
                    \/ _looks_like_percentage_value(current_cell_data)
                    \/ _looks_like_change_value(current_cell_data))
             THEN raw_data_rows
        ELSE IF keeps_own_jumlah_saham(m, raw_data_rows, row_idx) THEN raw_data_rows
        ELSE IF current_cell_data = "" THEN written
        ELSE IF /\ m.data # current_cell_data
                /\ ~Contains(current_cell_data, m.data)
                /\ Len(m.data) >= Len(current_cell_data)
             THEN written
        ELSE raw_data_rows

\* L1657: the rows in order, each seeing the rows written before it
RECURSIVE propagate_from(_, _, _, _)
propagate_from(m, gap2, raw_data_rows, row_idx) ==
    IF row_idx > Len(raw_data_rows) THEN raw_data_rows
    ELSE propagate_from(m, gap2, propagate_into_row(m, gap2, raw_data_rows, row_idx), row_idx + 1)
propagate_merged_cell(m, gap2, raw_data_rows) == propagate_from(m, gap2, raw_data_rows, 1)

\* L1740-1747
data_rows_of(raw_data_rows) ==
    [i \in 1..Len(raw_data_rows) |-> PadRow(raw_data_rows[i][2], "")]

\* column j spans x = 10 * (j + 1) .. 10 * (j + 2)
MergedEdges == [i \in 1..(TARGET_COLS + 1) |-> 10 * i]

\* a page with the No of an upper row (y 298..306) and of a lower row
\* (y 308..316, possibly on a later page), a tall span in column c, and
\* optionally a share count of each row in column c
TallBoxes == {<<300, 314>>, <<296, 312>>, <<302, 310>>}
TallTexts == {"ADI SUKO", "5.24", "2,000,000"}
Occupants == {"", "2,150,000"}
MergedSpanSets ==
    {{<<1, 11, 298, 17, 306, "318">>,
      <<p, 11, 308, 17, 316, no>>,
      <<1, 10 * c + 11, box[1], 10 * c + 14, box[2], text>>,
      <<1, 10 * c + 15, 298, 10 * c + 19, 306, up>>,
      <<p, 10 * c + 15, 308, 10 * c + 19, 316, low>>} :
        c \in Cols, box \in TallBoxes, text \in TallTexts,
        p \in 1..MaxPage, no \in {"318", "319"}, up \in Occupants, low \in Occupants}

NoMerge == [col |-> -1, y0 |-> 0, y1 |-> 0, data |-> "", page |-> 0,
            overlapping_clusters |-> <<>>]
NoMerged == [y_clusters |-> <<>>, avg_row_gap2 |-> 0, merged_cells_info |-> <<>>,
             todo |-> <<>>, last |-> NoMerge, before |-> <<>>]

InitMerged ==
    /\ pc = "blue_spans"
    /\ input \in MergedSpanSets
    /\ geo = NoMerged
    /\ rows = <<>>
    /\ run = 1
    /\ out1 = <<>>
    /\ fn = NoFn

\* L1512-1560: row gap, clusters and the merged spans
DetectMergedCells ==
    /\ pc = "blue_spans"
    /\ LET blue == all_blue_spans(input)
           clusters == y_clusters(blue)
           gap2 == avg_row_gap2(blue)
       IN  geo' = [geo EXCEPT !.y_clusters = clusters,
                              !.avg_row_gap2 = gap2,
                              !.merged_cells_info = merged_cells_info(MergedEdges, blue, clusters, gap2)]
    /\ pc' = "detected"
    /\ UNCHANGED <<run, input, rows, out1, fn>>

\* L1562-1637: the spans are placed into the raw rows
PlaceSpans ==
    /\ pc = "detected"
    /\ rows' = placed_rows(MergedEdges, all_blue_spans(input), geo.y_clusters)
    /\ pc' = "placed"
    /\ UNCHANGED <<run, input, out1, fn, geo>>

\* L1639-1647: the raw rows are corrected; the merged spans wait for propagation
CorrectRawRows ==
    /\ pc = "placed"
    /\ rows' = raw_tuple_correctors(rows)
    /\ geo' = [geo EXCEPT !.todo = IF rows' # <<>> THEN geo.merged_cells_info ELSE <<>>]
    /\ pc' = "propagating"
    /\ UNCHANGED <<run, input, out1, fn>>

\* L1648-1737: one iteration of the loop over merged_cells_info
PropagateMergedCell ==
    /\ pc = "propagating"
    /\ geo.todo # <<>>
    /\ rows' = propagate_merged_cell(Head(geo.todo), geo.avg_row_gap2, rows)
    /\ geo' = [geo EXCEPT !.todo = Tail(geo.todo), !.last = Head(geo.todo), !.before = rows]
    /\ UNCHANGED <<pc, run, input, out1, fn>>

\* L1739-1747: the cells of the raw rows become data_rows
ToDataRows ==
    /\ pc = "propagating"
    /\ geo.todo = <<>>
    /\ rows' = data_rows_of(rows)
    /\ pc' = "data_rows_done"
    /\ UNCHANGED <<run, input, out1, fn, geo>>

NextMerged ==
    \/ DetectMergedCells
    \/ PlaceSpans
    \/ CorrectRawRows
    \/ PropagateMergedCell
    \/ ToDataRows

SpecMerged == InitMerged /\ [][NextMerged]_vars

\* the pairs of rows on two different clusters that the span propagated last
\* overlaps on its page, whose cell in the span's column was blank before
BlankOverlappedPairs ==
    LET m == geo.last
        on(i) == /\ geo.before[i][3] = m.page
                 /\ \E k \in 1..Len(m.overlapping_clusters) :
                        m.overlapping_clusters[k] = geo.before[i][1]
                 /\ Strip(Cell(geo.before[i][2], m.col)) = ""
    IN  {<<i, k>> \in (1..Len(geo.before)) \X (1..Len(geo.before)) :
            on(i) /\ on(k) /\ geo.before[i][1] < geo.before[k][1]}

EdgeScale == 2 * 5 * 7 * 9
FIXED_COLS == 11

\* L1341: sorted(header_spans, key=x0), a stable sort
RECURSIVE sorted_by_x0(_)
sorted_by_x0(spans) ==
    IF spans = <<>> THEN <<>>
    ELSE LET least == MinOf({spans[i][2] : i \in 1..Len(spans)})
             first == MinOf({i \in 1..Len(spans) : spans[i][2] = least})
         IN  <<spans[first]>>
             \o sorted_by_x0(SubSeq(spans, 1, first - 1) \o SubSeq(spans, first + 1, Len(spans)))

\* L1346-1360: the loop of _build_header_cells; cur is <<cur_x0, cur_x1,
\* cur_texts>>, <<>> while cur_x1 is None; gap2 is twice the gap
RECURSIVE header_cells_from(_, _, _, _)
header_cells_from(spans_sorted, gap2, cells, cur) ==
    IF spans_sorted = <<>>
    THEN IF cur = <<>> THEN cells
         ELSE Append(cells, [x0 |-> cur[1], x1 |-> cur[2], text |-> Strip(Join(cur[3]))])
    ELSE LET sp == Head(spans_sorted)
             t == Join(Split(sp[6]))
             closes == cur # <<>> /\ 2 * sp[2] > 2 * cur[2] + gap2
             cells1 == IF closes
                       THEN Append(cells, [x0 |-> cur[1], x1 |-> cur[2], text |-> Strip(Join(cur[3]))])
                       ELSE cells
             cur1 == IF closes THEN <<>> ELSE cur
             cur2 == IF cur1 = <<>> THEN <<sp[2], sp[4], <<t>>>>
                     ELSE <<cur1[1], MaxOf({cur1[2], sp[4]}), Append(cur1[3], t)>>
         IN  IF t = "" THEN header_cells_from(Tail(spans_sorted), gap2, cells, cur)
             ELSE header_cells_from(Tail(spans_sorted), gap2, cells1, cur2)

\* L1339-1363: the cells of the header for one gap, those without width left out
_build_header_cells(header_spans, gap2) ==
    SelectSeq(header_cells_from(sorted_by_x0(header_spans), gap2, <<>>, <<>>),
              LAMBDA c : c.x1 > c.x0)

\* L1366: the gaps tried, doubled; the last one is COLUMN_X_GAP
gap_candidates2 == <<1, 2, 3, 4, 6, 8, 12, 16, 20, 2 * COLUMN_X_GAP>>

\* L1367-1375: the first gap that gives the most cells, at least 8; <<>> is None
RECURSIVE best_cells_from(_, _, _)
best_cells_from(header_spans, k, best_cells) ==
    IF k > Len(gap_candidates2) THEN best_cells
    ELSE LET c == _build_header_cells(header_spans, gap_candidates2[k])
             best1 == IF Len(c) >= 8 /\ (best_cells = <<>> \/ Len(c) > Len(best_cells))
                      THEN c ELSE best_cells
         IN  IF Len(c) >= 8 /\ Len(c) >= 20 THEN best1
             ELSE best_cells_from(header_spans, k + 1, best1)
best_cells_of(header_spans) == best_cells_from(header_spans, 1, <<>>)

\* L1392-1401: the limits, two points outside the header cells and the blue
\* spans; data_x is <<data_x0_min, data_x1_max>>, <<>> without blue spans
left_limit_of_header(header_cells, data_x) == EdgeScale * (header_cells[1].x0 - 2)
left_limit(header_cells, data_x) ==
    EdgeScale * (MinOf({header_cells[1].x0} \cup (IF data_x = <<>> THEN {} ELSE {data_x[1]})) - 2)
right_limit(header_cells, data_x) ==
    EdgeScale * (MaxOf({header_cells[Len(header_cells)].x1}
                       \cup (IF data_x = <<>> THEN {} ELSE {data_x[2]})) + 2)

\* L1408-1411, L1418-1421: the midpoint between cell i and cell i + 1
midpoint_edge_at_next(hc, i) == EdgeScale * hc[i + 1].x0
midpoint_edge(hc, i) == (EdgeScale \div 2) * (hc[i].x1 + hc[i + 1].x0)

\* L1404-1412: the edges of 18 header cells
edges_from_header(header_cells) ==
    [i \in 1..(TARGET_COLS + 1) |->
        IF i = 1 THEN EdgeScale * header_cells[1].x0
        ELSE IF i = TARGET_COLS + 1 THEN EdgeScale * header_cells[TARGET_COLS].x1
        ELSE midpoint_edge(header_cells, i - 1)]

\* L1413-1428: the edges of the 11 fixed cells, the rest of the width in sevenths
edges_from_fixed(header_cells, data_x) ==
    LET status_right == EdgeScale * header_cells[FIXED_COLS].x1
        segs == TARGET_COLS - FIXED_COLS
        span == MaxOf({EdgeScale, right_limit(header_cells, data_x) - status_right})
    IN  [i \in 1..(TARGET_COLS + 1) |->
            IF i = 1 THEN EdgeScale * header_cells[1].x0
            ELSE IF i <= FIXED_COLS THEN midpoint_edge(header_cells, i - 1)
            ELSE status_right + ((i - FIXED_COLS - 1) * span) \div segs]

\* L1429-1432: the whole width in eighteenths
edges_even(header_cells, data_x) ==
    LET span == MaxOf({EdgeScale, right_limit(header_cells, data_x) - left_limit(header_cells, data_x)})
    IN  [i \in 1..(TARGET_COLS + 1) |->
            left_limit(header_cells, data_x) + ((i - 1) * span) \div TARGET_COLS]

\* L1403-1432
raw_edges(header_cells, data_x) ==
    IF Len(header_cells) >= TARGET_COLS THEN edges_from_header(header_cells)
    ELSE IF Len(header_cells) >= FIXED_COLS THEN edges_from_fixed(header_cells, data_x)
    ELSE edges_even(header_cells, data_x)

\* L1434-1439: the loop that lifts an edge not above the one before it by 0.1
RECURSIVE lift_edges_from(_, _)
lift_edges_from(edges, i) ==
    IF i > Len(edges) - 1 THEN edges
    ELSE IF edges[i] >= edges[i + 1]
         THEN lift_edges_from([edges EXCEPT ![i + 1] = edges[i] + EdgeScale \div 10], i + 1)
         ELSE lift_edges_from(edges, i + 1)

\* L1434-1439
normalised_edges(edges, header_cells, data_x) ==
    lift_edges_from([edges EXCEPT ![1] = left_limit(header_cells, data_x),
                                  ![Len(edges)] = right_limit(header_cells, data_x)], 1)

\* L1441
column_boundaries(edges) == [i \in 1..TARGET_COLS |-> <<edges[i], edges[i + 1]>>]

(***************************************************************************)
(* Header rows: MaxHeaderSpans spans at most, 30 points apart, one of them *)
(* possibly without width, without text or reaching into the next one, in  *)
(* row order or reversed, with blue spans inside or outside the header.    *)
(***************************************************************************)
MaxHeaderSpans == 21
HeaderPitch == 30

HeaderSpan(k, width, text) == <<1, HeaderPitch * k, 100, HeaderPitch * k + width, 110, text>>

HeaderRow(n, width, odd, odd_width, odd_text) ==
    [k \in 1..n |-> IF k = odd THEN HeaderSpan(k, odd_width, odd_text)
                    ELSE HeaderSpan(k, width, "H")]

Reversed(seq) == [i \in 1..Len(seq) |-> seq[Len(seq) + 1 - i]]

HeaderRows ==
    UNION {UNION {{HeaderRow(n, width, 0, 0, "")}
                  \cup {HeaderRow(n, width, odd, 0, "H") : odd \in {1, 5, n}}
                  \cup {HeaderRow(n, width, odd, width, " ") : odd \in {1, 5, n}}
                  \cup {HeaderRow(n, width, odd, 35, "H  H") : odd \in {1, 5, n}}
                  : width \in {20, 29}} : n \in 7..MaxHeaderSpans}

DataExtents == {<<>>, <<40, 500>>, <<10, 300>>, <<35, 700>>, <<5, 800>>}

NoEdges == [header_cells |-> <<>>, raw |-> <<>>, edges |-> <<>>]

InitEdges ==
    /\ pc = "header_row"
    /\ run = 0
    /\ \E row \in HeaderRows, data_x \in DataExtents, rev \in BOOLEAN :
          input = [header_spans |-> IF rev THEN Reversed(row) ELSE row, data_x |-> data_x]
    /\ rows = <<>>
    /\ out1 = <<>>
    /\ fn = <<>>
    /\ geo = NoEdges

\* L1365-1381: the header cells of the best gap
BuildHeaderCells ==
    /\ pc = "header_row"
    /\ best_cells_of(input.header_spans) # <<>>
    /\ geo' = [geo EXCEPT !.header_cells = best_cells_of(input.header_spans)]
    /\ pc' = "header_cells"
    /\ UNCHANGED <<run, input, rows, out1, fn>>

\* L1377-1379: fewer than 8 header cells for every gap
NoHeaderCells ==
    /\ pc = "header_row"
    /\ best_cells_of(input.header_spans) = <<>>
    /\ pc' = "flat_table"
    /\ UNCHANGED <<run, input, rows, out1, fn, geo>>

\* L1392-1432
BuildEdges ==
    /\ pc = "header_cells"
    /\ geo' = [geo EXCEPT !.raw = raw_edges(geo.header_cells, input.data_x)]
    /\ pc' = "edges"
    /\ UNCHANGED <<run, input, rows, out1, fn>>

\* L1434-1441
NormaliseEdges ==
    /\ pc = "edges"
    /\ geo' = [geo EXCEPT !.edges = normalised_edges(geo.raw, geo.header_cells, input.data_x)]
    /\ pc' = "column_boundaries"
    /\ UNCHANGED <<run, input, rows, out1, fn>>

NextEdges == BuildHeaderCells \/ NoHeaderCells \/ BuildEdges \/ NormaliseEdges

SpecEdges == InitEdges /\ [][NextEdges]_vars

\* the extent of the header cells and of the blue spans
LeftmostX0 ==
    MinOf({geo.header_cells[i].x0 : i \in 1..Len(geo.header_cells)}
          \cup (IF input.data_x = <<>> THEN {} ELSE {input.data_x[1]}))
RightmostX1 ==
    MaxOf({geo.header_cells[i].x1 : i \in 1..Len(geo.header_cells)}
          \cup (IF input.data_x = <<>> THEN {} ELSE {input.data_x[2]}))

\* C11: the column boundaries made of a located header are 18 intervals whose
\* 19 edges increase strictly, the first edge at or left of the leftmost x0
\* and the last edge at or right of the rightmost x1 of the header cells and
\* the blue spans, whichever of the three constructions made them.
C11_EdgesCoverAndIncrease ==
    pc = "column_boundaries" =>
        /\ Len(geo.edges) = TARGET_COLS + 1
        /\ Len(column_boundaries(geo.edges)) = TARGET_COLS
        /\ \A i \in 1..TARGET_COLS : geo.edges[i] < geo.edges[i + 1]
        /\ geo.edges[1] <= EdgeScale * LeftmostX0
        /\ geo.edges[TARGET_COLS + 1] >= EdgeScale * RightmostX1

\* the 11 fixed cells were used, and a blue span lies outside the header on both sides
C11_Witness ==
    /\ pc = "column_boundaries"
    /\ Len(geo.header_cells) >= FIXED_COLS
    /\ Len(geo.header_cells) < TARGET_COLS
    /\ input.data_x # <<>>
    /\ input.data_x[1] < geo.header_cells[1].x0
    /\ input.data_x[2] > geo.header_cells[Len(geo.header_cells)].x1

\* C12: with 18 or more header cells, which the gap keeps apart, every
\* interior edge i of 1..17 is the midpoint between the right end of header
\* cell i - 1 and the left end of header cell i (cells counted from 0).
C12_InteriorEdgesAreMidpoints ==
    (pc = "column_boundaries" /\ Len(geo.header_cells) >= TARGET_COLS) =>
        \A i \in 1..(TARGET_COLS - 1) :
            2 * geo.edges[i + 1] = EdgeScale * (geo.header_cells[i].x1 + geo.header_cells[i + 1].x0)

\* more header cells than columns, one of them wider than the others, and
\* blue spans reaching out of the header on both sides
C12_Witness ==
    /\ pc = "column_boundaries"
    /\ Len(geo.header_cells) > TARGET_COLS
    /\ \E i \in 1..TARGET_COLS :
          geo.header_cells[i].x1 - geo.header_cells[i].x0 > HeaderPitch
    /\ input.data_x # <<>>
    /\ input.data_x[1] < geo.header_cells[1].x0
    /\ input.data_x[2] > geo.header_cells[Len(geo.header_cells)].x1

(***************************************************************************)
(* _fix_no_kode_efek_cells on one normalised row (L1767): the first two    *)
(* cells are drawn from No / Kode Efek shapes, the cells behind them are   *)
(* filled or blank.  fn is <<name, argument, result>>.                     *)
(***************************************************************************)
NoCells == {"247 BKSL", " 143  ATLA", "12\tPT ABC", "7 8 X", "318", "BKSL", "247B KSL", "", "-"}
KodeCells == {"", "-", " - ", " ", "BKSL", "5", "ATLA TBK"}
RestOfRow == {[k \in 1..(TARGET_COLS - 2) |-> ""],
              [k \in 1..(TARGET_COLS - 2) |-> IF k = 1 THEN "PT BAKRIELAND" ELSE ""],
              [k \in 1..(TARGET_COLS - 2) |-> IF k = 1 THEN "12 AB" ELSE IF k = 10 THEN "2,150,000" ELSE "-"]}

InitNoKode ==
    /\ pc = "normalized_row"
    /\ fn \in {<<"", <<no, kode>> \o rest, <<>>>> : no \in NoCells, kode \in KodeCells, rest \in RestOfRow}
    /\ run = 1
    /\ input = <<>>
    /\ rows = <<>>
    /\ out1 = <<>>
    /\ geo = NoGeo

\* L1767
FixNoKodeEfek ==
    /\ pc = "normalized_row"
    /\ fn' = <<"_fix_no_kode_efek_cells", fn[2], _fix_no_kode_efek_cells(fn[2])>>
    /\ pc' = "no_kode_efek_done"
    /\ UNCHANGED <<run, input, rows, out1, geo>>

NextNoKode == FixNoKodeEfek

SpecNoKode == InitNoKode /\ [][NextNoKode]_vars

\* s, outer white space aside, is digits, white space and a rest: the sets of
\* <<digits, rest>> it reads as
NoAndRest(s) ==
    LET t == Strip(s)
    IN  {<<SubSeq(t, 1, n), Strip(SubSeq(t, n + 1, Len(t)))>> :
            n \in {m \in 1..(Len(t) - 1) :
                      /\ \A i \in 1..m : Ch(t, i) \in Digits
                      /\ Ch(t, m + 1) \in WhiteSpace}}

\* C13: when column 0 holds digits, white space and a rest, and column 1 is
\* empty or "-", _fix_no_kode_efek_cells leaves the digits in column 0, the
\* rest in column 1 and every other cell as it was.
C13_SplitsNoAndKodeEfek ==
    (/\ pc = "no_kode_efek_done"
     /\ NoAndRest(fn[2][1]) # {}
     /\ Strip(fn[2][2]) \in {"", "-"}) =>
        /\ <<fn[3][1], fn[3][2]>> \in NoAndRest(fn[2][1])
        /\ Len(fn[3]) = Len(fn[2])
        /\ \A k \in 3..Len(fn[2]) : fn[3][k] = fn[2][k]

\* a joined cell was split over a "-" and the row has other cells to keep
C13_Witness ==
    /\ pc = "no_kode_efek_done"
    /\ fn[2][1] = "247 BKSL"
    /\ fn[2][2] = "-"
    /\ fn[2][3] = "12 AB"
    /\ fn[3][1] = "247"
    /\ fn[3][2] = "BKSL"

(***************************************************************************)
(* Colour classification (L15-50).  A colour is [type, v, items]: None, a  *)
(* bool, an int v, a float, or a tuple, str or dict of items.  An item is  *)
(* [k, m]: a float of m thousandths, nan, inf, a text float() rejects, or  *)
(* None.  A call gives [raises, value]: raises names the exception that    *)
(* leaves the function, "" when it returns value.                          *)
(***************************************************************************)
Return(v) == [raises |-> "", value |-> v]
Raise(e) == [raises |-> e, value |-> FALSE]

\* int(float(x) * 255): truncation towards zero
scaled_255(m) == IF m >= 0 THEN (m * 255) \div 1000 ELSE 0 - (((0 - m) * 255) \div 1000)

\* L24: what int(float(color[i]) * 255) does for one item
item_outcome(item) ==
    CASE item.k = "float" -> ""
      [] item.k = "nan" -> "ValueError"
      [] item.k = "inf" -> "OverflowError"
      [] item.k = "text" -> "ValueError"
      [] OTHER -> "TypeError"

\* L15-28: the triple, None (value <<>>), or the exception the try lets through
_color_to_rgb(color) ==
    IF color.type = "NoneType" THEN Return(<<>>)
    ELSE IF color.type = "int"
    THEN Return(<<(color.v \div 65536) % 256, (color.v \div 256) % 256, color.v % 256>>)
    ELSE IF color.type \in {"float", "bool"} THEN Return(<<>>)
    ELSE IF Len(color.items) < 3 THEN Return(<<>>)
    ELSE IF color.type = "dict" THEN Raise("KeyError")
    ELSE LET failed == {i \in 1..3 : item_outcome(color.items[i]) # ""}
         IN  IF failed = {}
             THEN Return(<<scaled_255(color.items[1].m), scaled_255(color.items[2].m),
                           scaled_255(color.items[3].m)>>)
             ELSE IF item_outcome(color.items[MinOf(failed)]) \in {"TypeError", "ValueError", "IndexError"}
             THEN Return(<<>>)
             ELSE Raise(item_outcome(color.items[MinOf(failed)]))

\* L35-37
blue_rgb(rgb) == rgb[3] > rgb[1] /\ rgb[3] > rgb[2] /\ rgb[3] >= 80

\* L31-37
is_blue_color(color) ==
    LET rgb == _color_to_rgb(color)
    IN  IF rgb.raises # "" THEN Raise(rgb.raises)
        ELSE IF rgb.value = <<>> THEN Return(FALSE)
        ELSE Return(blue_rgb(rgb.value))

other_color_unless_missing(color) ==
    LET rgb == _color_to_rgb(color)
    IN  IF rgb.raises # "" THEN Raise(rgb.raises)
        ELSE IF rgb.value = <<>> THEN Return(FALSE)
        ELSE Return(~blue_rgb(rgb.value))
\* L40-50
is_explicitly_other_color(color) ==
    LET rgb == _color_to_rgb(color)
    IN  IF rgb.raises # "" THEN Raise(rgb.raises)
        ELSE IF rgb.value = <<>> THEN Return(TRUE)
        ELSE IF blue_rgb(rgb.value) THEN Return(FALSE)
        ELSE Return(TRUE)

Color(type, v, items) == [type |-> type, v |-> v, items |-> items]
Float(m) == [k |-> "float", m |-> m]
ColorItems == {Float(0), Float(50), Float(313), Float(314), Float(600), Float(1000),
               Float(2000), Float(0 - 500),
               [k |-> "nan", m |-> 0], [k |-> "inf", m |-> 0],
               [k |-> "text", m |-> 0], [k |-> "None", m |-> 0]}
Channels == {0, 32, 79, 80, 81, 255}
ColorInputs ==
    {Color("NoneType", 0, <<>>), Color("bool", 1, <<>>), Color("float", 0, <<>>),
     Color("int", 0 - 1, <<>>), Color("int", 16777216 + 80, <<>>)}
    \cup {Color("int", 65536 * r + 256 * g + b, <<>>) : r \in Channels, g \in Channels, b \in Channels}
    \cup {Color("tuple", 0, <<r, g, b>>) : r \in ColorItems, g \in ColorItems, b \in ColorItems}
    \cup {Color("tuple", 0, <<Float(0), b>>) : b \in ColorItems}
    \cup {Color("tuple", 0, <<Float(0), Float(50), b, a>>) : b \in ColorItems, a \in ColorItems}
    \cup {Color("dict", 0, <<Float(0), Float(0), b>>) : b \in ColorItems}
    \cup {Color("str", 0, <<[k |-> "text", m |-> 0], [k |-> "text", m |-> 0], b>>) : b \in ColorItems}

InitColor ==
    /\ pc = "color"
    /\ input \in ColorInputs
    /\ run = 1
    /\ rows = <<>>
    /\ out1 = <<>>
    /\ fn = <<>>
    /\ geo = NoGeo

\* L130, L133, L162, L188: both predicates asked about the colour of a span
ClassifyColor ==
    /\ pc = "color"
    /\ fn' = <<"is_blue_color", input, is_blue_color(input), is_explicitly_other_color(input)>>
    /\ pc' = "classified"
    /\ UNCHANGED <<run, input, rows, out1, geo>>

NextColor == ClassifyColor

SpecColor == InitColor /\ [][NextColor]_vars

\* the colours that convert: a packed integer, or a sequence of three or more
\* floats, each of which can be scaled by 255 and truncated
Converts(color) ==
    \/ color.type = "int"
    \/ /\ color.type = "tuple"
       /\ Len(color.items) >= 3
       /\ \A i \in 1..3 : color.items[i].k = "float"
ConvertedTriple(color) ==
    IF color.type = "int"
    THEN <<(color.v \div 65536) % 256, (color.v \div 256) % 256, color.v % 256>>
    ELSE [i \in 1..3 |-> scaled_255(color.items[i].m)]

\* C14: is_blue_color returns true exactly when the colour converts to a
\* triple with b > r, b > g and b >= 80, and so returns false for None and
\* for every value that does not convert.
C14_BlueIffDominantBlue ==
    pc = "classified" =>
        /\ fn[3].raises = ""
        /\ fn[3].value <=>
              (/\ Converts(fn[2])
               /\ ConvertedTriple(fn[2])[3] > ConvertedTriple(fn[2])[1]
               /\ ConvertedTriple(fn[2])[3] > ConvertedTriple(fn[2])[2]
               /\ ConvertedTriple(fn[2])[3] >= 80)

\* C15 as stated: among the colours classified there is one on which the two
\* predicates return and do not return opposite truth values.
C15_NotComplements ==
    pc = "classified" =>
        \E color \in ColorInputs :
            /\ is_blue_color(color).raises = ""
            /\ is_explicitly_other_color(color).raises = ""
            /\ is_blue_color(color).value = is_explicitly_other_color(color).value

\* C15: on every colour is_blue_color returns on, is_explicitly_other_color
\* returns the opposite truth value.
C15_ExactComplements ==
    (pc = "classified" /\ fn[3].raises = "") =>
        /\ fn[4].raises = ""
        /\ fn[4].value = ~fn[3].value

\* a colour without metadata was classified: not blue, explicitly other
C15_Witness ==
    /\ pc = "classified"
    /\ fn[2].type = "NoneType"
    /\ fn[3] = Return(FALSE)
    /\ fn[4] = Return(TRUE)

(***************************************************************************)
(* The three extraction functions (L100-192).  A document is a sequence of *)
(* pages; a page is [readable, blocks], a block [type, spans] with the     *)
(* spans of its lines in order, a span [color, text].  Reading a page that *)
(* is not readable raises.  geo is [doc_open, page_num, current_paragraph, *)
(* in_blue_paragraph, raises] and out1 the list built so far; size, font   *)
(* and bbox of an item are left out.                                       *)
(***************************************************************************)
\* L64-81
_span_to_item(span, page_num) == [text |-> Strip(span.text), page |-> page_num + 1]

\* "\n".join(lines)
RECURSIVE join_lines(_)
join_lines(lines) ==
    IF lines = <<>> THEN ""
    ELSE IF Len(lines) = 1 THEN lines[1]
    ELSE lines[1] \o "\n" \o join_lines(Tail(lines))

\* L84-97
_flush_paragraph(current, out) ==
    LET lines == SelectSeq([i \in 1..Len(current) |-> current[i].text], LAMBDA t : t # "")
    IN  IF current = <<>> \/ lines = <<>> THEN out
        ELSE Append(out, [text |-> join_lines(lines), page |-> current[1].page])

\* st is [out, current_paragraph, in_blue_paragraph, raises]
flushed(st) ==
    [st EXCEPT !.out = _flush_paragraph(st.current_paragraph, st.out),
               !.current_paragraph = <<>>,
               !.in_blue_paragraph = FALSE]

\* L129-138
blue_text_span(st, span, page_num) ==
    LET blue == is_blue_color(span.color)
        other == is_explicitly_other_color(span.color)
    IN  IF blue.raises # "" THEN [st EXCEPT !.raises = blue.raises]
        ELSE IF blue.value
        THEN [st EXCEPT !.in_blue_paragraph = TRUE,
                        !.current_paragraph = Append(@, _span_to_item(span, page_num))]
        ELSE IF st.in_blue_paragraph /\ other.raises # "" THEN [st EXCEPT !.raises = other.raises]
        ELSE IF st.in_blue_paragraph /\ ~other.value
        THEN [st EXCEPT !.current_paragraph = Append(@, _span_to_item(span, page_num))]
        ELSE flushed(st)

\* L161-166
blue_bbox_span(st, span, page_num) ==
    LET blue == is_blue_color(span.color)
        item == _span_to_item(span, page_num)
    IN  IF blue.raises # "" THEN [st EXCEPT !.raises = blue.raises]
        ELSE IF ~blue.value \/ item.text = "" THEN st
        ELSE [st EXCEPT !.out = Append(@, item)]

\* L186-190
all_bbox_span(st, span, page_num) ==
    LET blue == is_blue_color(span.color)
        item == _span_to_item(span, page_num)
    IN  IF blue.raises # "" THEN [st EXCEPT !.raises = blue.raises]
        ELSE IF item.text = "" THEN st
        ELSE [st EXCEPT !.out = Append(@, [text |-> item.text, page |-> item.page,
                                           is_blue |-> blue.value])]

extract_span(function, st, span, page_num) ==
    CASE function = "extract_blue_text_from_pdf" -> blue_text_span(st, span, page_num)
      [] function = "extract_blue_spans_with_bbox" -> blue_bbox_span(st, span, page_num)
      [] OTHER -> all_bbox_span(st, span, page_num)

\* the loop over the spans of a block, left when a span raises
RECURSIVE extract_spans(_, _, _, _)
extract_spans(function, st, spans, page_num) ==
    IF spans = <<>> \/ st.raises # "" THEN st
    ELSE extract_spans(function, extract_span(function, st, Head(spans), page_num),
                       Tail(spans), page_num)

\* L116-141, L153-165, L178-190: one block; only a text block (type 0) is read
extract_block(function, st, block, page_num) ==
    IF block.type # 0 THEN st
    ELSE IF function = "extract_blue_text_from_pdf"
    THEN LET after == extract_spans(function, flushed(st), block.spans, page_num)
         IN  IF after.raises # "" THEN after
             ELSE [after EXCEPT !.out = _flush_paragraph(after.current_paragraph, after.out),
                                !.current_paragraph = <<>>]
    ELSE extract_spans(function, st, block.spans, page_num)

RECURSIVE extract_blocks(_, _, _, _)
extract_blocks(function, st, blocks, page_num) ==
    IF blocks = <<>> \/ st.raises # "" THEN st
    ELSE extract_blocks(function, extract_block(function, st, Head(blocks), page_num),
                        Tail(blocks), page_num)

\* L108-141, L150-165, L175-190: one turn of the loop over the pages
extract_page(function, st, page, page_num) ==
    LET st0 == IF function = "extract_blue_text_from_pdf" THEN flushed(st) ELSE st
    IN  IF ~page.readable THEN [st0 EXCEPT !.raises = "RuntimeError"]
        ELSE extract_blocks(function, st0, page.blocks, page_num)

ExtractFunctions ==
    {"extract_blue_text_from_pdf", "extract_blue_spans_with_bbox", "extract_all_spans_with_bbox"}

Blue == Color("int", 255, <<>>)
Black == Color("int", 0, <<>>)
NoColor == Color("NoneType", 0, <<>>)
Endless == Color("tuple", 0, <<Float(0), Float(0), [k |-> "inf", m |-> 0]>>)
TextSpan(color, text) == [color |-> color, text |-> text]
TextBlock(spans) == [type |-> 0, spans |-> spans]

MaxPages == 2
Pages ==
    {[readable |-> FALSE, blocks |-> <<>>],
     [readable |-> TRUE, blocks |-> <<>>],
     [readable |-> TRUE, blocks |-> <<[type |-> 1, spans |-> <<TextSpan(Blue, "img")>>]>>]}
    \cup {[readable |-> TRUE, blocks |-> <<TextBlock(<<TextSpan(Blue, "a"), TextSpan(c, t)>>),
                                           TextBlock(<<TextSpan(Blue, " b ")>>)>>] :
             c \in {Blue, Black, NoColor, Endless}, t \in {"c", ""}}
    \cup {[readable |-> TRUE, blocks |-> <<TextBlock(<<TextSpan(c, "d"), TextSpan(Blue, "e"),
                                                       TextSpan(Blue, "f")>>)>>] :
             c \in {Black, NoColor, Endless}}
Documents == UNION {[1..n -> Pages] : n \in 0..MaxPages}

NoExtract ==
    [doc_open |-> FALSE, page_num |-> 0, current_paragraph |-> <<>>,
     in_blue_paragraph |-> FALSE, raises |-> ""]

InitExtract ==
    /\ pc = "call"
    /\ input \in {[function |-> f, doc |-> d] : f \in ExtractFunctions, d \in Documents}
    /\ run = 1
    /\ rows = <<>>
    /\ out1 = <<>>
    /\ fn = <<>>
    /\ geo = NoExtract

\* L105-108, L148-149, L173-174: fitz.open and the empty lists
OpenDocument ==
    /\ pc = "call"
    /\ geo' = [geo EXCEPT !.doc_open = TRUE]
    /\ pc' = "pages"
    /\ UNCHANGED <<run, input, rows, out1, fn>>

PageRead ==
    extract_page(input.function,
                 [out |-> out1, current_paragraph |-> geo.current_paragraph,
                  in_blue_paragraph |-> geo.in_blue_paragraph, raises |-> ""],
                 input.doc[geo.page_num + 1], geo.page_num)

\* one turn of the loop over the pages that ends without an exception
ReadPage ==
    /\ pc = "pages"
    /\ geo.page_num < Len(input.doc)
    /\ PageRead.raises = ""
    /\ out1' = PageRead.out
    /\ geo' = [geo EXCEPT !.page_num = @ + 1,
                          !.current_paragraph = PageRead.current_paragraph,
                          !.in_blue_paragraph = PageRead.in_blue_paragraph]
    /\ UNCHANGED <<pc, run, input, rows, fn>>

\* one turn of the loop in which reading the page or a span raises: the
\* exception leaves the function
ReadPageRaises ==
    /\ pc = "pages"
    /\ geo.page_num < Len(input.doc)
    /\ PageRead.raises # ""
    /\ geo' = [geo EXCEPT !.raises = PageRead.raises]
    /\ pc' = "raised"
    /\ UNCHANGED <<run, input, rows, out1, fn>>

\* L141-143, L167-168, L191-192: after the last page
CloseAndReturn ==
    /\ pc = "pages"
    /\ geo.page_num = Len(input.doc)
    /\ out1' = IF input.function = "extract_blue_text_from_pdf"
               THEN _flush_paragraph(geo.current_paragraph, out1) ELSE out1
    /\ geo' = [geo EXCEPT !.doc_open = FALSE]
    /\ pc' = "returned"
    /\ UNCHANGED <<run, input, rows, fn>>

NextExtract == OpenDocument \/ ReadPage \/ ReadPageRaises \/ CloseAndReturn

SpecExtract == InitExtract /\ [][NextExtract]_vars

\* C16: in each extraction function the document opened at the start is
\* closed on every way out, the one by an exception included.
C16_DocumentClosedOnEveryExit ==
    pc \in {"returned", "raised"} => ~geo.doc_open

(***************************************************************************)
(* The search for the header row (L1318-1332) and the ways back to the     *)
(* flat table (L1330-1332, L1377-1379, L1508-1510).  A span of all_spans   *)
(* is <<page, x0, y0, x1, y1, text, is_blue>>.                             *)
(***************************************************************************)
HEADER_KEYWORDS ==
    {"no. urut", "no.urut", "no. aodi", "no.aodi", "kode efek", "nama emiten",
     "nama pemegang saham", "nama pemegang rekening efek", "nama rekening efek",
     "alamat", "alamat (lanjutan)", "alamat lanjutan", "kebangsaan", "domisili",
     "status (lokal/asing)", "status lokal", "kepemilikan per", "jumlah saham",
     "saham gabungan per investor", "persentase kepemilikan", "perubahan"}
MIN_HEADER_CELLS == 5
MIN_HEADER_KEYWORD_MATCHES == 3
CORE_HEADER_KEYWORDS ==
    {"no. urut", "no.urut", "no. aodi", "no.aodi", "kode efek", "nama emiten",
     "nama pemegang saham", "nama pemegang rekening efek"}

\* L291-294
_row_text_lower(row_spans) ==
    MapLower(Join([i \in 1..Len(row_spans) |-> Strip(row_spans[i][6])]))

\* L297-309: a span more than COLUMN_X_GAP right of the span before it counts
_row_cell_count(row_spans) ==
    IF row_spans = <<>> THEN 0
    ELSE 1 + Cardinality({i \in 2..Len(row_spans) :
                            row_spans[i][2] - row_spans[i - 1][4] > COLUMN_X_GAP})

\* L326: the names that let a row with "kepemilikan per" through
main_column_names == {"nama emiten", "kode efek", "nama pemegang", "no. urut", "no. aodi"}

\* L312-333, for the lowered text of the row and its cell count
header_text_and_cells(text, cell_count) ==
    /\ Len(text) >= 3
    /\ \E kw \in CORE_HEADER_KEYWORDS : Contains(text, kw)
    /\ ~(/\ Contains(text, "kepemilikan per")
         /\ ~\E kw \in main_column_names : Contains(text, kw))
    /\ Cardinality({kw \in HEADER_KEYWORDS : Contains(text, kw)}) >= MIN_HEADER_KEYWORD_MATCHES
    /\ cell_count >= MIN_HEADER_CELLS

\* L312-333
_row_looks_like_header(row_spans) ==
    header_text_and_cells(_row_text_lower(row_spans), _row_cell_count(row_spans))

\* L1290-1301: the loop of _group_spans_into_rows; current_y2 is -1 for None
RECURSIVE group_rows_from(_, _, _, _, _)
group_rows_from(sorted_spans, grouped, current_y2, current_page, current_row) ==
    IF sorted_spans = <<>>
    THEN IF current_row # <<>> THEN Append(grouped, <<current_y2, current_page, current_row>>)
         ELSE grouped
    ELSE LET sp == Head(sorted_spans)
             mid_y2 == sp[3] + sp[5]
             new_row == /\ current_y2 # -1
                        /\ (\/ sp[1] # current_page
                            \/ Dist(mid_y2, current_y2) > 2 * ROW_Y_TOLERANCE)
         IN  IF new_row
             THEN group_rows_from(Tail(sorted_spans),
                                  IF current_row # <<>>
                                  THEN Append(grouped, <<current_y2, current_page, current_row>>)
                                  ELSE grouped,
                                  mid_y2, sp[1], <<sp>>)
             ELSE group_rows_from(Tail(sorted_spans), grouped, mid_y2, sp[1],
                                  Append(current_row, sp))

\* L1276-1304: rows of <<y_mid doubled, page, spans>>
_group_spans_into_rows(span_items) ==
    IF span_items = {} THEN <<>>
    ELSE group_rows_from(SortedSpans(span_items), <<>>, -1, 0, <<>>)

\* L2428-2454: one span of the loop of build_table_from_spans
flat_add_span(st, sp) ==
    LET text == Strip(sp[6])
        mid_y2 == sp[3] + sp[5]
        new_row == st.current_row_y2 # -1 /\ Dist(mid_y2, st.current_row_y2) > 2 * ROW_Y_TOLERANCE
        closed == WithCell(st.current_row_cells, st.current_cell_texts)
        cells1 == IF new_row THEN <<>> ELSE st.current_row_cells
        texts1 == IF new_row THEN <<>> ELSE st.current_cell_texts
        last1 == IF new_row THEN -1 ELSE st.last_x1
        new_col == last1 # -1 /\ sp[2] - last1 > COLUMN_X_GAP
    IN  IF text = "" THEN st
        ELSE [rows |-> IF new_row /\ closed # <<>> THEN Append(st.rows, closed) ELSE st.rows,
              current_row_y2 |-> mid_y2,
              current_row_cells |-> IF new_col THEN WithCell(cells1, texts1) ELSE cells1,
              current_cell_texts |-> IF new_col THEN <<text>> ELSE Append(texts1, text),
              last_x1 |-> sp[4]]

RECURSIVE flat_rows_from(_, _)
flat_rows_from(sorted_spans, st) ==
    IF sorted_spans = <<>>
    THEN LET closed == WithCell(st.current_row_cells, st.current_cell_texts)
         IN  IF closed # <<>> THEN Append(st.rows, closed) ELSE st.rows
    ELSE flat_rows_from(Tail(sorted_spans), flat_add_span(st, Head(sorted_spans)))

\* L2409-2460
build_table_from_spans(span_items) ==
    IF span_items = {} THEN <<>>
    ELSE flat_rows_from(SortedSpans(span_items),
                        [rows |-> <<>>, current_row_y2 |-> -1, current_row_cells |-> <<>>,
                         current_cell_texts |-> <<>>, last_x1 |-> -1])

\* L1331, L1378, L1509: [s for s in all_spans if s.get("is_blue")]
every_span(spans) == spans
blue_only(spans) == {sp \in spans : sp[7]}

\* L1325-1329: the first row that looks like a header, 0 for None
header_row_idx(rows_raw) ==
    LET found == {i \in 1..Len(rows_raw) : _row_looks_like_header(rows_raw[i][3])}
    IN  IF found = {} THEN 0 ELSE MinOf(found)

\* L1492-1506: the blue spans of the rows after the header that have a text
blue_data_spans(rows_raw, header) ==
    UNION {{rows_raw[i][3][k] : k \in {j \in 1..Len(rows_raw[i][3]) :
                                          /\ rows_raw[i][3][j][7]
                                          /\ Strip(rows_raw[i][3][j][6]) \notin {"", "-"}}} :
              i \in (header + 1)..Len(rows_raw)}

(***************************************************************************)
(* Pages for the header search: two lines that may hold a title, a         *)
(* sub-header or a header, and a line of data under them.                  *)
(***************************************************************************)
LineSpans(y, texts, pitch, is_blue) ==
    {<<1, pitch * k, y - 4, pitch * k + 15, y + 4, texts[k], is_blue>> : k \in 1..Len(texts)}

TitleLine == <<"Daftar Pemegang Saham">>
SubHeaderLine ==
    <<"Kepemilikan Per 28-JAN-2026", "Jumlah Saham", "Saham Gabungan Per Investor",
      "Persentase Kepemilikan", "Perubahan">>
NoUrutLine ==
    <<"No.Urut", "Alamat", "Kebangsaan", "Domisili", "Kepemilikan Per 28-JAN-2026", "Perubahan">>
NoAodiLine ==
    <<"No.AODI", "Alamat", "Kebangsaan", "Domisili", "Status Lokal", "Jumlah Saham",
      "Persentase", "Perubahan">>
FullLine ==
    <<"No. Urut", "Kode Efek", "Nama Emiten", "Alamat", "Kebangsaan", "Domisili",
      "Status", "Jumlah Saham", "Perubahan">>
ShortLine == <<"Kode Efek", "Nama Emiten", "Alamat", "Domisili", "Perubahan">>
TwoKeywordLine == <<"Kode Efek", "Alamat", "a", "b", "c">>

\* the lines a page may hold at height y; the last one is FullLine with its
\* spans too close to count as cells
TopLines(y) ==
    {{}, LineSpans(y, TitleLine, 30, TRUE), LineSpans(y, SubHeaderLine, 30, FALSE),
     LineSpans(y, NoUrutLine, 30, FALSE), LineSpans(y, NoAodiLine, 30, FALSE),
     LineSpans(y, FullLine, 30, FALSE), LineSpans(y, ShortLine, 30, FALSE),
     LineSpans(y, TwoKeywordLine, 30, FALSE), LineSpans(y, FullLine, 20, FALSE)}

DataLines ==
    {{},
     {<<1, 30, 116, 45, 124, "318", TRUE>>, <<1, 60, 116, 75, 124, "BKSL", TRUE>>},
     {<<1, 30, 117, 45, 125, "318", TRUE>>, <<1, 60, 116, 75, 124, "BKSL", TRUE>>,
      <<1, 90, 116, 105, 124, "PT", FALSE>>},
     {<<1, 30, 116, 45, 124, "318", FALSE>>, <<1, 60, 116, 75, 124, "BKSL", FALSE>>},
     {<<1, 30, 116, 45, 124, "-", TRUE>>, <<1, 60, 116, 75, 124, "-", TRUE>>}}

HeaderPages ==
    {top \cup second \cup data : top \in TopLines(50), second \in TopLines(70), data \in DataLines}

NoHeader == [header_row_idx |-> 0, header_cells |-> <<>>, way |-> ""]

InitHeader ==
    /\ pc = "all_spans"
    /\ input \in HeaderPages
    /\ run = 1
    /\ rows = <<>>
    /\ out1 = <<>>
    /\ fn = <<>>
    /\ geo = NoHeader

\* L1318-1320: no span at all gives an empty table
NoSpans ==
    /\ pc = "all_spans"
    /\ input = {}
    /\ out1' = <<>>
    /\ geo' = [geo EXCEPT !.way = "no spans"]
    /\ pc' = "returned"
    /\ UNCHANGED <<run, input, rows, fn>>

\* L1321
GroupSpansIntoRows ==
    /\ pc = "all_spans"
    /\ input # {}
    /\ rows' = _group_spans_into_rows(input)
    /\ pc' = "rows_raw"
    /\ UNCHANGED <<run, input, out1, fn, geo>>

\* L1324-1329, L1334
FindHeaderRow ==
    /\ pc = "rows_raw"
    /\ header_row_idx(rows) # 0
    /\ geo' = [geo EXCEPT !.header_row_idx = header_row_idx(rows)]
    /\ pc' = "header_row"
    /\ UNCHANGED <<run, input, rows, out1, fn>>

\* L1330-1332
FlatWithoutHeader ==
    /\ pc = "rows_raw"
    /\ header_row_idx(rows) = 0
    /\ out1' = build_table_from_spans(blue_only(input))
    /\ geo' = [geo EXCEPT !.way = "no header row"]
    /\ pc' = "returned"
    /\ UNCHANGED <<run, input, rows, fn>>

\* L1365-1381
HeaderCellsOfRow ==
    /\ pc = "header_row"
    /\ best_cells_of(rows[geo.header_row_idx][3]) # <<>>
    /\ geo' = [geo EXCEPT !.header_cells = best_cells_of(rows[geo.header_row_idx][3])]
    /\ pc' = "header_cells"
    /\ UNCHANGED <<run, input, rows, out1, fn>>

\* L1377-1379
FlatWithFewCells ==
    /\ pc = "header_row"
    /\ best_cells_of(rows[geo.header_row_idx][3]) = <<>>
    /\ out1' = build_table_from_spans(blue_only(input))
    /\ geo' = [geo EXCEPT !.way = "few header cells"]
    /\ pc' = "returned"
    /\ UNCHANGED <<run, input, rows, fn>>

\* L1490-1506: the blue spans under the header; the table is built of them
CollectBlueSpans ==
    /\ pc = "header_cells"
    /\ blue_data_spans(rows, geo.header_row_idx) # {}
    /\ pc' = "all_blue_spans"
    /\ UNCHANGED <<run, input, rows, out1, fn, geo>>

\* L1508-1510
FlatWithoutData ==
    /\ pc = "header_cells"
    /\ blue_data_spans(rows, geo.header_row_idx) = {}
    /\ out1' = build_table_from_spans(blue_only(input))
    /\ geo' = [geo EXCEPT !.way = "no blue data"]
    /\ pc' = "returned"
    /\ UNCHANGED <<run, input, rows, fn>>

NextHeader ==
    \/ NoSpans
    \/ GroupSpansIntoRows
    \/ FindHeaderRow
    \/ FlatWithoutHeader
    \/ HeaderCellsOfRow
    \/ FlatWithFewCells
    \/ CollectBlueSpans
    \/ FlatWithoutData

SpecHeader == InitHeader /\ [][NextHeader]_vars

\* the rows of the page that qualify as header as (a) to (d) say
QualifiesAsHeader(row_spans) ==
    LET text == _row_text_lower(row_spans)
    IN  /\ \E kw \in CORE_HEADER_KEYWORDS : Contains(text, kw)
        /\ ~(/\ Contains(text, "kepemilikan per")
             /\ ~\E kw \in CORE_HEADER_KEYWORDS : Contains(text, kw))
        /\ Cardinality({kw \in HEADER_KEYWORDS : Contains(text, kw)}) >= 3
        /\ _row_cell_count(row_spans) >= 5
QualifyingRows == {i \in 1..Len(rows) : QualifiesAsHeader(rows[i][3])}

\* no gap gives 8 header cells or more
FewHeaderCells(header_spans) ==
    \A k \in 1..Len(gap_candidates2) :
        Len(_build_header_cells(header_spans, gap_candidates2[k])) < 8

\* the search is over: the table is returned or the blue spans are collected
SearchOver == pc \in {"returned", "all_blue_spans"} /\ input # {}

\* C17: without a row that qualifies as header, with a header of fewer than
\* 8 header cells, or without a blue data span under the header, the result
\* is the flat table build_table_from_spans makes of the blue spans only.
C17_FlatTableOfBlueSpans ==
    (/\ SearchOver
     /\ \/ header_row_idx(rows) = 0
        \/ FewHeaderCells(rows[header_row_idx(rows)][3])
        \/ blue_data_spans(rows, header_row_idx(rows)) = {}) =>
        /\ pc = "returned"
        /\ out1 = build_table_from_spans({sp \in input : sp[7]})

\* a header of 9 cells over a line of black spans and under a blue title:
\* the flat table holds the title alone
C17_Witness ==
    /\ pc = "returned"
    /\ geo.way = "no blue data"
    /\ Len(geo.header_cells) >= 8
    /\ \E sp \in input : ~sp[7] /\ sp[3] > 100
    /\ out1 = <<<<"Daftar Pemegang Saham">>>>

\* C18: the header is the first row from the top that (a) holds a core
\* keyword, (b) is not a "kepemilikan per" sub-header without any core
\* keyword, (c) matches 3 keywords or more and (d) has 5 cells or more; every
\* row with a core keyword, 3 keywords and 5 cells is accepted.
C18_FirstQualifyingRowIsHeader ==
    pc \in {"header_row", "returned"} /\ input # {} =>
        /\ QualifyingRows = {} => header_row_idx(rows) = 0
        /\ QualifyingRows # {} => header_row_idx(rows) = MinOf(QualifyingRows)

\* C19: in every row of _group_spans_into_rows the spans stand from left to
\* right: the x0 of a span is not greater than the x0 of the span after it.
C19_RowsLeftToRight ==
    pc = "rows_raw" =>
        \A i \in 1..Len(rows) : \A k \in 1..(Len(rows[i][3]) - 1) :
            rows[i][3][k][2] <= rows[i][3][k + 1][2]

\* a cell that holds a number of one of the three shapes
IsWellFormedNumber(cell) ==
    /\ Strip(cell) # ""
    /\ \/ _looks_like_large_number(Strip(cell))
       \/ _looks_like_percentage_value(Strip(cell))
       \/ _looks_like_change_value(Strip(cell))

\* the cells <<row, column>> of the columns 11..17 that held a number before
\* the span propagated last
NumericCellsBefore ==
    {rc \in (1..Len(geo.before)) \X (11..17) : IsWellFormedNumber(Cell(geo.before[rc[1]][2], rc[2]))}

\* C20: a cell of the columns 11..17 that holds a large number, a percentage
\* or a change value before a merged span is propagated holds the same value
\* after it, for every merged span.
C20_NumericCellsKept ==
    (pc = "propagating" /\ geo.last # NoMerge) =>
        /\ Len(rows) = Len(geo.before)
        /\ \A rc \in NumericCellsBefore :
              Cell(rows[rc[1]][2], rc[2]) = Cell(geo.before[rc[1]][2], rc[2])

\* the span propagated last lies in a numeric column and overlaps, on its
\* page, a row that held another number in that column
C20_Witness ==
    /\ pc = "propagating"
    /\ geo.last # NoMerge
    /\ \E rc \in NumericCellsBefore :
          /\ rc[2] = geo.last.col
          /\ geo.before[rc[1]][3] = geo.last.page
          /\ is_overlapping(geo.last, geo.avg_row_gap2, geo.before[rc[1]])
          /\ Strip(Cell(geo.before[rc[1]][2], rc[2])) # geo.last.data
          /\ ~Contains(Strip(Cell(geo.before[rc[1]][2], rc[2])), geo.last.data)
          /\ Len(geo.last.data) >= Len(Strip(Cell(geo.before[rc[1]][2], rc[2])))
          /\ Cell(rows[rc[1]][2], rc[2]) = Cell(geo.before[rc[1]][2], rc[2])

\* the rows whose cell in the column of the span propagated last was changed
RowsWrittenByLast ==
    {i \in 1..Len(geo.before) :
        Cell(rows[i][2], geo.last.col) # Cell(geo.before[i][2], geo.last.col)}

\* C21: propagation writes the text of a merged span into a cell only if the
\* cell is empty or the text is longer than the value in it: a cell that is
\* not empty is never replaced by another text of the same or a smaller length.
C21_OnlyEmptyOrShorterReplaced ==
    (pc = "propagating" /\ geo.last # NoMerge) =>
        \A i \in RowsWrittenByLast :
            \/ Strip(Cell(geo.before[i][2], geo.last.col)) = ""
            \/ Len(geo.last.data) > Len(Strip(Cell(geo.before[i][2], geo.last.col)))

(***************************************************************************)
(* _merge_split_kode_emiten_rows on tables of up to MaxMergeRows rows: a   *)
(* row holds a No or none, a stock code or a company name in column 1, and *)
(* a share count, "-" or nothing in column 11.  fn is <<name, argument,    *)
(* result>> and geo the merges made, as pairs <<i, k>> of the row and the  *)
(* offset of the row merged into it.                                       *)
(***************************************************************************)
MaxMergeRows == 3

SplitRows ==
    {Put(Put(Put(BlankRow, 0, no), 1, code), 11, count) :
        no \in {"318", ""}, code \in {"BKSL", "PT ABC Tbk"},
        count \in {"", "-", "2,150,000", "2,000,000"}}
    \cup {FullRow, Put(Put(BlankRow, 0, "319"), 3, "ADI SUKO")}
SplitTables == UNION {[1..n -> SplitRows] : n \in 1..MaxMergeRows}

\* L452-507: the merges of the loop, <<i, k>> for row i merged with row i + k
RECURSIVE merges_from(_, _)
merges_from(raw_data_rows, i) ==
    IF i > Len(raw_data_rows) THEN {}
    ELSE LET K == merge_offsets(raw_data_rows, i)
         IN  IF K = {} THEN merges_from(raw_data_rows, i + 1)
             ELSE {<<i, MinOf(K)>>} \cup merges_from(raw_data_rows, i + 1 + MinOf(K))

InitMergeSplit ==
    /\ pc = "raw_data_rows"
    /\ fn \in {<<"", t, <<>>>> : t \in SplitTables}
    /\ run = 1
    /\ input = <<>>
    /\ rows = <<>>
    /\ out1 = <<>>
    /\ geo = {}

\* L1642
MergeSplitRows ==
    /\ pc = "raw_data_rows"
    /\ fn' = <<"_merge_split_kode_emiten_rows", fn[2], _merge_split_kode_emiten_rows(fn[2])>>
    /\ geo' = merges_from(fn[2], 1)
    /\ pc' = "merge_split_done"
    /\ UNCHANGED <<run, input, rows, out1>>

NextMergeSplit == MergeSplitRows

SpecMergeSplit == InitMergeSplit /\ [][NextMergeSplit]_vars

\* a cell of the columns 11..17 of the following row that is not blank and
\* differs from the cell of the current row
HoldsOwnNumber(cells, next_cells) ==
    \E j \in 11..17 :
        /\ ~IsBlank(Cell(next_cells, j))
        /\ Strip(Cell(next_cells, j)) # Strip(Cell(cells, j))

\* C22: _merge_split_kode_emiten_rows merges a row with a following row only
\* if the following row has no cell in the columns 11..17 that is not blank
\* and differs from the cell of the current row in that column.
C22_MergedRowHasNoOwnNumber ==
    pc = "merge_split_done" =>
        \A m \in geo : ~HoldsOwnNumber(fn[2][m[1]], fn[2][m[1] + m[2]])

\* a code row was merged with the name row two rows below it, past a row
\* that holds a share count of its own
C22_Witness ==
    /\ pc = "merge_split_done"
    /\ \E m \in geo :
          /\ m[2] = 2
          /\ HoldsOwnNumber(fn[2][m[1]], fn[2][m[1] + 1])
          /\ Cell(fn[2][m[1]], 11) = Cell(fn[2][m[1] + 2], 11)
          /\ ~IsBlank(Cell(fn[2][m[1]], 11))

\* the rows of the argument that were merged into a row above them
MergedAway == {m[1] + m[2] : m \in geo}

\* C27: _merge_split_kode_emiten_rows discards no row: every merge takes one
\* following row, the result has as many rows as the argument less the
\* merges, and every row that was not merged into another is in the result.
C27_NoRowDiscarded ==
    pc = "merge_split_done" =>
        /\ Len(fn[3]) = Len(fn[2]) - Cardinality(geo)
        /\ \A i \in (1..Len(fn[2])) \ (MergedAway \cup {m[1] : m \in geo}) :
              \E k \in 1..Len(fn[3]) : fn[3][k] = fn[2][i]

(***************************************************************************)
(* _merge_continuation_rows on tables of one record row followed by up to  *)
(* MaxContinuations rows whose No is "-", as the rows are after the        *)
(* normalisation of L1750-1765 (a blank cell holds "-").                   *)
(***************************************************************************)
MaxContinuations == 2

RecordRows ==
    {FullRow,
     Put(Put(Put(FullRow, 6, "-"), 12, "-"), 17, "-"),
     Put(Put(Put(Put(DashRow, 0, "318"), 1, "BKSL"), 2, "PT ABC Tbk"), 11, "2,150,000")}

ContinuationRows ==
    {Put(Put(Put(Put(DashRow, 3, name), 6, address), 11, count), 17, change) :
        name \in {"-", "ADI SUKO"}, address \in {"-", "JL RAYA 5"},
        count \in {"-", "2,150,000", "2,000,000"}, change \in {"-", "343"}}

ContinuationTables ==
    UNION {{<<r>> \o t : r \in RecordRows, t \in [1..n -> ContinuationRows]} :
              n \in 1..MaxContinuations}

InitContinuation ==
    /\ pc = "final_data_rows"
    /\ fn \in {<<"", t, <<>>>> : t \in ContinuationTables}
    /\ run = 1
    /\ input = <<>>
    /\ rows = <<>>
    /\ out1 = <<>>
    /\ geo = NoGeo

\* L1777
MergeContinuationRows ==
    /\ pc = "final_data_rows"
    /\ fn' = <<"_merge_continuation_rows", fn[2], _merge_continuation_rows(fn[2])>>
    /\ pc' = "continuation_done"
    /\ UNCHANGED <<run, input, rows, out1, geo>>

NextContinuation == MergeContinuationRows

SpecContinuation == InitContinuation /\ [][NextContinuation]_vars

\* the columns of a row that hold no value, and those that hold one
BlankCols(row) == {j \in Cols : IsBlank(Cell(row, j))}
ValueCols(row) == {j \in Cols : ~IsBlank(Cell(row, j))}

\* the row R of the table, the continuation row right below it and the row
\* of the result at the place of R
RecordRow == fn[2][1]
FirstContinuation == fn[2][2]
MergedRecord == fn[3][1]

\* C23: the merge of a continuation row (No "-") into the row R above it
\* loses no value: every value of the continuation row is in a cell of R that
\* was blank before, in the last V blank cells in column order when the V
\* values fit; no cell of R that held a value changes; and the continuation
\* row is no row of the result.
C23_ContinuationLosesNoValue ==
    pc = "continuation_done" =>
        LET E == BlankCols(RecordRow)
            V == ValueCols(FirstContinuation)
            e == Cardinality(E)
            v == Cardinality(V)
        IN  /\ \A j \in V : \E b \in E :
                   Cell(MergedRecord, b) = Strip(Cell(FirstContinuation, j))
            /\ e >= v =>
                   \A k \in 1..v :
                       Cell(MergedRecord, Nth(E, e - v + k))
                           = Strip(Cell(FirstContinuation, Nth(V, k)))
            /\ \A j \in ValueCols(RecordRow) :
                   Cell(MergedRecord, j) = Cell(RecordRow, j)
            /\ \A k \in 2..Len(fn[3]) : fn[3][k] # FirstContinuation

(***************************************************************************)
(* _dedupe_rows_fill_kode_efek on tables of two to MaxDedupeRows rows as   *)
(* they are after the normalisation (a blank cell holds "-").              *)
(***************************************************************************)
MaxDedupeRows == 3

DedupeRows ==
    {Put(Put(Put(Put(DashRow, 0, no), 1, kode), 2, name), 11, count) :
        no \in {"318", "319"}, kode \in {"-", "BKSL"},
        name \in {"-", "PT ABC Tbk"}, count \in {"-", "2,150,000", "2,000,000"}}

DedupeTables == UNION {[1..n -> DedupeRows] : n \in 2..MaxDedupeRows}

InitDedupe ==
    /\ pc = "continuation_done"
    /\ fn \in {<<"", t, <<>>>> : t \in DedupeTables}
    /\ run = 1
    /\ input = <<>>
    /\ rows = <<>>
    /\ out1 = <<>>
    /\ geo = NoGeo

\* L1779
DedupeRowsFillKodeEfek ==
    /\ pc = "continuation_done"
    /\ fn[1] = ""
    /\ fn' = <<"_dedupe_rows_fill_kode_efek", fn[2], _dedupe_rows_fill_kode_efek(fn[2])>>
    /\ pc' = "dedupe_done"
    /\ UNCHANGED <<run, input, rows, out1, geo>>

NextDedupe == DedupeRowsFillKodeEfek

SpecDedupe == InitDedupe /\ [][NextDedupe]_vars

\* rows i and i + 1 of the table have the same No, the first no stock code
\* and the second a text of the shape of a stock code
DuplicatePair(i) ==
    /\ i + 1 <= Len(fn[2])
    /\ Strip(Cell(fn[2][i], 0)) # ""
    /\ Strip(Cell(fn[2][i], 0)) = Strip(Cell(fn[2][i + 1], 0))
    /\ IsBlank(Cell(fn[2][i], 1))
    /\ ~IsBlank(Cell(fn[2][i + 1], 1))
    /\ _looks_like_stock_code(Strip(Cell(fn[2][i + 1], 1)))

\* the pair is collapsed: the second row holds no number of its own
Redundant(i) == DuplicatePair(i) /\ ~HoldsOwnNumber(fn[2][i], fn[2][i + 1])

\* the place in the result of row i of the table
PlaceOf(i) == i - Cardinality({j \in 1..(i - 2) : Redundant(j)})

\* C24: of two adjacent rows with the same No, the first without a stock code
\* and the second with one, _dedupe_rows_fill_kode_efek returns one row, the
\* first with its blank cells filled from the second, when the second row has
\* no cell in 11..17 that is not blank and differs from the first row's; it
\* returns both rows otherwise.
C24_DuplicateRowsCollapsed ==
    pc = "dedupe_done" =>
        /\ Len(fn[3]) = Len(fn[2]) - Cardinality({j \in 1..Len(fn[2]) : Redundant(j)})
        /\ \A i \in 1..Len(fn[2]) :
              DuplicatePair(i) =>
                  LET first == fn[2][i]
                      second == fn[2][i + 1]
                      out == fn[3][PlaceOf(i)]
                  IN  IF Redundant(i)
                      THEN \A j \in Cols :
                               Cell(out, j) = IF IsBlank(Cell(first, j))
                                              THEN Cell(second, j)
                                              ELSE Cell(first, j)
                      ELSE /\ fn[3][PlaceOf(i) + 1] = second
                           /\ \A j \in ValueCols(first) \cup (11..17) :
                                  Cell(out, j) = Cell(first, j)

\* the second and third row are a pair that is collapsed, the name of the
\* first being filled from the second
C24_Witness ==
    /\ pc = "dedupe_done"
    /\ Len(fn[2]) = 3
    /\ Redundant(2)
    /\ IsBlank(Cell(fn[2][2], 2)) /\ Cell(fn[3][2], 2) = "PT ABC Tbk"
    /\ IsBlank(Cell(fn[2][2], 11)) /\ IsBlank(Cell(fn[2][3], 11))
    /\ Len(fn[3]) = 2

(***************************************************************************)
(* The correctors of build_table_with_header_from_pdf one call at a time.  *)
(* rows is the table, geo the index of the row in the loop of L1752-1771   *)
(* (0 outside it) and out1 the calls made so far, each <<corrector, row>>  *)
(* with row 0 for a corrector of the whole table.                          *)
(***************************************************************************)
OrderTables ==
    RawTables
    \cup {<<Put(Put(FullRow, 0, "318BKSL"), 1, ""), l>> : l \in RawLowerRows}

InitOrder ==
    /\ pc = "raw_data_rows"
    /\ input \in OrderTables
    /\ rows = input
    /\ run = 1
    /\ out1 = <<>>
    /\ fn = NoFn
    /\ geo = 0

\* a corrector of the whole table is called
TableCall(from, name, result, to) ==
    /\ pc = from
    /\ rows' = result
    /\ out1' = Append(out1, <<name, 0>>)
    /\ pc' = to
    /\ UNCHANGED <<run, input, fn>>

\* a corrector of the row of the loop is called
RowCall(from, name, F(_), to) ==
    /\ pc = from
    /\ rows' = [rows EXCEPT ![geo] = F(rows[geo])]
    /\ out1' = Append(out1, <<name, geo>>)
    /\ pc' = to
    /\ UNCHANGED <<run, input, fn>>

\* L1640
CallSplitRowsDuplicateNumeric ==
    /\ TableCall("raw_data_rows", "_split_rows_duplicate_numeric",
                 _split_rows_duplicate_numeric(rows), "L1642")
    /\ geo' = geo

\* L1642
CallMergeSplitKodeEmitenRows ==
    /\ TableCall("L1642", "_merge_split_kode_emiten_rows",
                 _merge_split_kode_emiten_rows(rows), "L1644")
    /\ geo' = geo

\* L1644; the loop of L1752 starts with the first row, if there is one
CallRemoveDuplicateDataRows ==
    /\ TableCall("L1644", "_remove_duplicate_data_rows",
                 _remove_duplicate_data_rows(rows), "L1752")
    /\ geo' = 1

\* L1752-1765: the next row of the loop is normalised, or the loop ends
NormaliseRow ==
    /\ pc = "L1752"
    /\ IF geo <= Len(rows)
       THEN /\ rows' = [rows EXCEPT ![geo] = normalized_row(rows[geo])]
            /\ pc' = "L1767"
       ELSE /\ rows' = rows
            /\ pc' = "L1777"
    /\ UNCHANGED <<run, input, out1, fn, geo>>

\* L1767
CallFixNoKodeEfekCells ==
    /\ RowCall("L1767", "_fix_no_kode_efek_cells", _fix_no_kode_efek_cells, "L1769")
    /\ geo' = geo

\* L1769
CallFixKodeEmitenCells ==
    /\ RowCall("L1769", "_fix_kode_emiten_cells", _fix_kode_emiten_cells, "L1771")
    /\ geo' = geo

\* L1771
CallFixPersentasePerubahanCells ==
    /\ RowCall("L1771", "_fix_persentase_perubahan_cells",
               _fix_persentase_perubahan_cells, "L1773")
    /\ geo' = geo

\* L1773: the last corrector of the row; the loop goes to the next row
CallFixNumericBlockByContent ==
    /\ pc = "L1773"
    /\ rows' = [rows EXCEPT ![geo] = _fix_numeric_block_by_content(rows[geo])]
    /\ out1' = Append(out1, <<"_fix_numeric_block_by_content", geo>>)
    /\ geo' = geo + 1
    /\ pc' = "L1752"
    /\ UNCHANGED <<run, input, fn>>

\* L1777
CallMergeContinuationRows ==
    /\ TableCall("L1777", "_merge_continuation_rows",
                 _merge_continuation_rows(rows), "L1779")
    /\ geo' = 0

\* L1779
CallDedupeRowsFillKodeEfek ==
    /\ TableCall("L1779", "_dedupe_rows_fill_kode_efek",
                 _dedupe_rows_fill_kode_efek(rows), "L1783")
    /\ geo' = geo

\* L1783-2406: the numeric block of every row once more, the stripping to
\* data_18 and the passes over the finished rows
FinishRun ==
    /\ pc = "L1783"
    /\ rows' = same_no_passes(final_rows_pass(data_18_of(refix_numeric_block(rows))))
    /\ pc' = "returned"
    /\ UNCHANGED <<run, input, out1, fn, geo>>

NextOrder ==
    \/ CallSplitRowsDuplicateNumeric
    \/ CallMergeSplitKodeEmitenRows
    \/ CallRemoveDuplicateDataRows
    \/ NormaliseRow
    \/ CallFixNoKodeEfekCells
    \/ CallFixKodeEmitenCells
    \/ CallFixPersentasePerubahanCells
    \/ CallFixNumericBlockByContent
    \/ CallMergeContinuationRows
    \/ CallDedupeRowsFillKodeEfek
    \/ FinishRun

SpecOrder == InitOrder /\ [][NextOrder]_vars

\* the run made of single calls returns what the run of Spec returns
OrderAgreesWithCascade ==
    pc = "returned" => rows = cascade(raw_row_correctors(input))

\* the place of a corrector in the list: identity-column split, name/code
\* displacement repair, cross-row identity merge, numeric-block
\* classification and split-value repair, continuation-row merge,
\* duplicate-row collapse, exact-duplicate removal (0: not in the list)
ListedPlace(name) ==
    CASE name = "_fix_no_kode_efek_cells" -> 1
      [] name = "_fix_kode_emiten_cells" -> 2
      [] name = "_merge_split_kode_emiten_rows" -> 3
      [] name = "_fix_numeric_block_by_content" -> 4
      [] name = "_merge_continuation_rows" -> 5
      [] name = "_dedupe_rows_fill_kode_efek" -> 6
      [] name = "_remove_duplicate_data_rows" -> 7
      [] OTHER -> 0

\* two calls concern a common row
CommonRow(p, q) == out1[p][2] = 0 \/ out1[q][2] = 0 \/ out1[p][2] = out1[q][2]

\* C26: within one run the correctors are called in the listed order; in
\* particular the identity-column split of a row is called before the
\* cross-row identity merge examines the row, and the exact-duplicate
\* removal after the duplicate-row collapse.
C26_CorrectorsInListedOrder ==
    \A q \in 1..Len(out1) : \A p \in 1..(q - 1) :
        (/\ ListedPlace(out1[p][1]) > 0
         /\ ListedPlace(out1[q][1]) > 0
         /\ CommonRow(p, q))
            => ListedPlace(out1[p][1]) <= ListedPlace(out1[q][1])

(***************************************************************************)
(* The paragraphs of extract_blue_text_from_pdf (SpecExtract).             *)
(***************************************************************************)
IsBlueSpan(span) == is_blue_color(span.color) = Return(TRUE)

\* the spans of a block cut into the longest runs of blue spans: runs is the
\* runs that are complete, run_ the one that the last span read is in
RECURSIVE BlueRunsFrom(_, _, _)
BlueRunsFrom(spans, runs, run_) ==
    IF spans = <<>> THEN (IF run_ = <<>> THEN runs ELSE Append(runs, run_))
    ELSE IF IsBlueSpan(Head(spans)) THEN BlueRunsFrom(Tail(spans), runs, Append(run_, Head(spans)))
    ELSE BlueRunsFrom(Tail(spans), IF run_ = <<>> THEN runs ELSE Append(runs, run_), <<>>)

\* the texts of a run that are not empty, one per line
RunText(run_) ==
    join_lines(SelectSeq([i \in 1..Len(run_) |-> Strip(run_[i].text)], LAMBDA t : t # ""))

RECURSIVE ParagraphsOfRuns(_, _)
ParagraphsOfRuns(runs, page_no) ==
    IF runs = <<>> THEN <<>>
    ELSE (IF RunText(Head(runs)) = "" THEN <<>>
          ELSE <<[text |-> RunText(Head(runs)), page |-> page_no]>>)
         \o ParagraphsOfRuns(Tail(runs), page_no)

RECURSIVE ParagraphsOfBlocks(_, _)
ParagraphsOfBlocks(blocks, page_no) ==
    IF blocks = <<>> THEN <<>>
    ELSE (IF Head(blocks).type # 0 THEN <<>>
          ELSE ParagraphsOfRuns(BlueRunsFrom(Head(blocks).spans, <<>>, <<>>), page_no))
         \o ParagraphsOfBlocks(Tail(blocks), page_no)

\* the paragraphs of the first n pages of the document
RECURSIVE ParagraphsOfPages(_, _)
ParagraphsOfPages(doc, n) ==
    IF n = 0 THEN <<>>
    ELSE ParagraphsOfPages(doc, n - 1) \o ParagraphsOfBlocks(doc[n].blocks, n)

\* C28: in extract_blue_text_from_pdf, after any number of pages read, the
\* paragraphs emitted are the runs of consecutive blue spans of each text
\* block of each page, in the order met: a paragraph holds only spans that
\* is_blue_color classifies blue, of one block of one page; a span that is
\* not blue, one without colour included, is in no paragraph and ends the
\* current one; and every blue span with a text is in exactly one paragraph.
C28_ParagraphsAreBlueRuns ==
    (input \in [function : {"extract_blue_text_from_pdf"}, doc : Documents]
        /\ pc \in {"pages", "returned"})
        => /\ out1 = ParagraphsOfPages(input.doc, geo.page_num)
           /\ geo.current_paragraph = <<>>

\* a document was returned in which a span without colour follows a blue
\* span in one block and two blue spans follow one without colour in another
C28_Witness ==
    /\ pc = "returned"
    /\ input \in [function : {"extract_blue_text_from_pdf"}, doc : Documents]
    /\ Len(input.doc) = 2
    /\ input.doc[1].blocks = <<TextBlock(<<TextSpan(Blue, "a"), TextSpan(NoColor, "c")>>),
                               TextBlock(<<TextSpan(Blue, " b ")>>)>>
    /\ input.doc[2].blocks = <<TextBlock(<<TextSpan(NoColor, "d"), TextSpan(Blue, "e"),
                                           TextSpan(Blue, "f")>>)>>
    /\ out1 = <<[text |-> "a", page |-> 1], [text |-> "b", page |-> 1],
                [text |-> "e\nf", page |-> 2]>>

(***************************************************************************)
(* build_table_from_spans and _group_spans_into_rows on the spans of up to *)
(* MaxPage pages: on each page two columns and three lines, two of them    *)
(* within ROW_Y_TOLERANCE of each other.  Every span has a text of its     *)
(* own.  fn is <<name, spans, table>> and geo the rows of the grouping.    *)
(***************************************************************************)
PageSlots == {<<p, y, x>> : p \in 1..MaxPage, y \in {100, 103, 120}, x \in {10, 60}}
PageSlotText(slot) ==
    (IF slot[1] = 1 THEN "p" ELSE IF slot[1] = 2 THEN "q" ELSE "r")
    \o (IF slot[2] = 100 THEN "a" ELSE IF slot[2] = 103 THEN "b" ELSE "c")
    \o (IF slot[3] = 10 THEN "x" ELSE "y")
PageSpan(slot) ==
    <<slot[1], slot[3], slot[2] - 4, slot[3] + 20, slot[2] + 4, PageSlotText(slot)>>
PageSpanSets == {{PageSpan(slot) : slot \in S} : S \in SUBSET PageSlots}

InitFlatPages ==
    /\ pc = "spans"
    /\ input \in PageSpanSets
    /\ fn = NoFn
    /\ geo = <<>>
    /\ rows = <<>>
    /\ run = 1
    /\ out1 = <<>>

\* L2409-2460 and L1276-1304 on the same spans
BuildTableFromSpans ==
    /\ pc = "spans"
    /\ fn' = <<"build_table_from_spans", input, build_table_from_spans(input)>>
    /\ geo' = _group_spans_into_rows(input)
    /\ pc' = "table"
    /\ UNCHANGED <<run, input, rows, out1>>

NextFlatPages == BuildTableFromSpans

SpecFlatPages == InitFlatPages /\ [][NextFlatPages]_vars

\* the rows of the flat table that hold the text of the span
FlatRowsOf(sp) ==
    {i \in 1..Len(fn[3]) :
        \E c \in 1..Len(fn[3][i]) :
            \E w \in 1..Len(Split(fn[3][i][c])) : Split(fn[3][i][c])[w] = sp[6]}

\* the rows of the grouping are each of one page
GroupedRowsOfOnePage ==
    pc = "table" =>
        \A i \in 1..Len(geo) : \A k \in 1..Len(geo[i][3]) : geo[i][3][k][1] = geo[i][2]

\* C30: the flat table of build_table_from_spans holds no row with spans of
\* different pages: a span on another page than the span before it starts a
\* new row, as in _group_spans_into_rows.
C30_FlatRowsOfOnePage ==
    pc = "table" =>
        /\ \A s \in input : \A t \in input :
              s[1] # t[1] => FlatRowsOf(s) \cap FlatRowsOf(t) = {}
        /\ Len(fn[3]) = Len(geo)

(***************************************************************************)
(* _apply_raw_blue_fix_same_no_baris_bawah (L2658-2947), as extract_blue   *)
(* calls it (L2992): the header row is the template header, whose names    *)
(* give the columns 0, 11, 14, 17, 12 and 15 (L2679-2699), and every data  *)
(* row has TARGET_COLS cells.  lines is the sequence of raw blue words;    *)
(* positions in it count from 1, and 0 stands for None.                    *)
(***************************************************************************)
\* (s or "").strip() or "-"
OrDash(s) == IF Strip(s) = "" THEN "-" ELSE Strip(s)

\* L2707-2719: the No a row is filed under, "" when it is filed under none
filed_under(data_rows, row_idx) ==
    LET no == Strip(Cell(data_rows[row_idx], idx_no_18))
        prev_no == IF row_idx > 1 THEN Strip(Cell(data_rows[row_idx - 1], idx_no_18)) ELSE ""
    IN  IF no # "" /\ no # "-" THEN no
        ELSE IF prev_no # "" /\ prev_no # "-" THEN prev_no
        ELSE ""

\* the keys of no_to_indices in the order of their insertion
RECURSIVE no_keys_from(_, _, _)
no_keys_from(data_rows, row_idx, keys) ==
    IF row_idx > Len(data_rows) THEN keys
    ELSE LET no == filed_under(data_rows, row_idx)
         IN  no_keys_from(data_rows, row_idx + 1,
                          IF no = "" \/ (\E k \in 1..Len(keys) : keys[k] = no)
                          THEN keys ELSE Append(keys, no))

no_to_indices(data_rows, no) ==
    {row_idx \in 1..Len(data_rows) : filed_under(data_rows, row_idx) = no}

\* L2731-2735: the first word equal to the No
pos_no_of(lines, no) ==
    LET at == {i \in 1..Len(lines) : Strip(lines[i]) = no}
    IN  IF at = {} THEN 0 ELSE MinOf(at)

\* L2742-2749: the first word after it that looks like another No, or the
\* position after the last word
segment_end_of(lines, no, pos_no) ==
    LET at == {j \in (pos_no + 1)..Len(lines) :
                  _looks_like_no(Strip(lines[j])) /\ Strip(lines[j]) # no}
    IN  IF at = {} THEN Len(lines) + 1 ELSE MinOf(at)

\* L2758-2762
shaped_triple_at(lines, i) ==
    /\ _looks_like_large_number(Strip(lines[i]))
    /\ ~_looks_like_percentage_value(Strip(lines[i]))
    /\ _looks_like_large_number(Strip(lines[i + 1]))
    /\ ~_looks_like_percentage_value(Strip(lines[i + 1]))
    /\ _looks_like_change_value(Strip(lines[i + 2]))

\* the last start of a triple: i < min(seg_end - 1, len(lines) - 2) in the
\* positions of the source, which count from 0
last_start_in_segment(lines, segment_end) == MinOf({segment_end, Len(lines)}) - 2

\* L2754-2765: the starts of the candidate triples
candidates_of(lines, pos_no, segment_end, j1_first, j2_first) ==
    {i \in (pos_no + 1)..last_start_in_segment(lines, segment_end) :
        /\ shaped_triple_at(lines, i)
        /\ <<Strip(lines[i]), Strip(lines[i + 1])>> # <<j1_first, j2_first>>}

\* L2766-2772: the first candidate with the change "0", else the last one
triple_start_of(lines, cand) ==
    LET zero == {i \in cand : Strip(lines[i + 2]) = "0"}
    IN  IF zero # {} THEN MinOf(zero)
        ELSE IF cand # {} THEN MaxOf(cand)
        ELSE 0

\* "-" + v unless v starts with "-"
negated(v) == IF v # "" /\ Ch(v, 1) = "-" THEN v ELSE "-" \o v

\* L2826-2828, L2926-2928: the Perubahan of the first row, when it is blank
with_negated_change(first_row, v) ==
    IF OrDash(Cell(first_row, idx_perubahan)) = "-"
    THEN Put(first_row, idx_perubahan, negated(v)) ELSE first_row

\* L2935-2939, L2835-2838: the merged cells of the row above
with_saham_gab_of(row, first_row) ==
    Put(Put(row, idx_saham_gab1, OrDash(Cell(first_row, idx_saham_gab1))),
        idx_saham_gab2, OrDash(Cell(first_row, idx_saham_gab2)))

\* L2909-2940: the triple is written to the second row; a small change with
\* both share counts of the row blank goes to Jumlah Saham (2) instead
apply_triple(data_rows, lines, first_idx, second_idx, triple_start) ==
    LET j1_val == lines[triple_start]
        j2_val == lines[triple_start + 1]
        p_val == lines[triple_start + 2]
        row == data_rows[second_idx]
        first_row == data_rows[first_idx]
        p_val_small == /\ _looks_like_change_value(p_val)
                       /\ ~_looks_like_large_number(p_val)
                       /\ Strip(p_val) \notin {"", "-", "0"}
        j1_empty == OrDash(Cell(row, idx_jumlah1)) = "-"
        j2_empty == OrDash(Cell(row, idx_jumlah2)) = "-"
    IN  IF p_val_small /\ j1_empty /\ j2_empty
        THEN LET first1 == with_negated_change(first_row, p_val)
                 row1 == Put(Put(Put(row, idx_jumlah1, "-"), idx_jumlah2, Strip(p_val)),
                             idx_perubahan, "0")
             IN  [[data_rows EXCEPT ![first_idx] = first1]
                     EXCEPT ![second_idx] = with_saham_gab_of(row1, first1)]
        ELSE LET row1 == Put(Put(Put(row, idx_jumlah1, j1_val), idx_jumlah2, j2_val),
                             idx_perubahan, p_val)
             IN  [data_rows EXCEPT ![second_idx] = with_saham_gab_of(row1, first_row)]

\* str(int(s)) of a digit string
canonical_int(digits) == IF DropLeadingZeros(digits) = "" THEN "0" ELSE DropLeadingZeros(digits)

\* L2776-2794: a word that is a number of 100..9999 and neither a large
\* number nor a percentage
change_like(w) ==
    LET w_normalized == RemoveFirst(RemoveChars(w, {",", " "}), ".")
    IN  /\ w # "" /\ w # "-"
        /\ IsDigitStr(w_normalized)
        /\ ~_looks_like_large_number(w)
        /\ ~_looks_like_percentage_value(w)
        /\ Len(canonical_int(w_normalized)) \in {3, 4}

\* the pairs <<position, str(v)>> of the positions first..last, in order
RECURSIVE _collect_change_like(_, _, _)
_collect_change_like(lines, first, last) ==
    IF first > last THEN <<>>
    ELSE LET w == Strip(lines[first])
         IN  (IF change_like(w)
              THEN <<<<first, canonical_int(RemoveFirst(RemoveChars(w, {",", " "}), "."))>>>>
              ELSE <<>>)
             \o _collect_change_like(lines, first + 1, last)

\* L2801-2805
_norm_num(s_) ==
    LET t == RemoveChars(s_, {",", " "})
    IN  IF IsDigitStr(t) THEN canonical_int(t) ELSE Strip(s_)

\* L2796-2814: the change-like values of the segment (of the 80 words after
\* it when it holds none), without the next No, the outer ones dropped
change_like_in_segment_of(lines, pos_no, segment_end) ==
    LET in_segment == _collect_change_like(lines, pos_no + 1, segment_end - 1)
        found == IF in_segment # <<>> THEN in_segment
                 ELSE _collect_change_like(lines, pos_no + 1,
                                           MinOf({segment_end - 1 + 80, Len(lines)}))
        kept == IF segment_end <= Len(lines)
                THEN SelectSeq(found,
                               LAMBDA e : _norm_num(e[2]) # _norm_num(Strip(lines[segment_end])))
                ELSE found
        inner == IF Len(kept) >= 3 THEN SubSeq(kept, 2, Len(kept) - 1) ELSE kept
    IN  IF Len(inner) = 2 THEN <<inner[2]>> ELSE inner

\* s.replace(",", "").replace(" ", "")
_norm(s_) == RemoveChars(s_, {",", " "})

\* L2854-2872: the large numbers of the segment and of the 40 words after
\* it that are not a value of the first row
large_in_segment_of(lines, pos_no, segment_end, first_row) ==
    LET j1_first == OrDash(Cell(first_row, idx_jumlah1))
        j2_first == OrDash(Cell(first_row, idx_jumlah2))
        sg2_first_norm == _norm(OrDash(Cell(first_row, idx_saham_gab2)))
    IN  {ii \in (pos_no + 1)..MinOf({segment_end - 1 + 40, Len(lines)}) :
            LET w == Strip(lines[ii])
                w_norm == _norm(w)
            IN  /\ w # ""
                /\ _looks_like_large_number(w)
                /\ ~_looks_like_percentage_value(w)
                /\ w_norm \notin {_norm(j2_first), sg2_first_norm, _norm(j1_first)}
                /\ ~(/\ ii >= segment_end
                     /\ Len(sg2_first_norm) >= 4 /\ Len(w_norm) >= 4
                     /\ SubSeq(w_norm, 1, 4) # SubSeq(sg2_first_norm, 1, 4))}

\* L2816-2891: no candidate triple
apply_fallback(data_rows, lines, first_idx, second_idx, pos_no, segment_end) ==
    LET cl == change_like_in_segment_of(lines, pos_no, segment_end)
        first_row == data_rows[first_idx]
        row2 == data_rows[second_idx]
        j1_current == OrDash(Cell(row2, idx_jumlah1))
        j2_val == OrDash(Cell(row2, idx_jumlah2))
        j2_first_norm == _norm(OrDash(Cell(first_row, idx_jumlah2)))
        sg2_first_norm == _norm(OrDash(Cell(first_row, idx_saham_gab2)))
        j2_equals_upper == /\ _norm(j2_val) # ""
                           /\ _norm(j2_val) \in {j2_first_norm, sg2_first_norm}
        large == large_in_segment_of(lines, pos_no, segment_end, first_row)
        row2a == IF j2_equals_upper /\ large # {}
                 THEN Put(row2, idx_jumlah2, Strip(lines[MaxOf(large)])) ELSE row2
        j1_eq_j2 == \/ j1_current = j2_val
                    \/ /\ _looks_like_large_number(j1_current)
                       /\ _looks_like_large_number(j2_val)
                       /\ _norm(j1_current) = _norm(j2_val)
        row2b == IF j1_current # "-" /\ j1_eq_j2 THEN Put(row2a, idx_jumlah1, "-") ELSE row2a
    IN  IF cl = <<>> THEN data_rows
        ELSE IF ~_looks_like_large_number(j2_val)
        THEN LET first1 == with_negated_change(first_row, cl[1][2])
                 new2 == Put(Put(Put(row2, idx_jumlah1, "-"),
                                 idx_jumlah2, cl[Len(cl)][2]),
                             idx_perubahan, OrDash(Cell(row2, idx_perubahan)))
             IN  [[data_rows EXCEPT ![first_idx] = first1]
                     EXCEPT ![second_idx] = with_saham_gab_of(new2, first1)]
        ELSE [data_rows EXCEPT ![second_idx] = row2b]

\* L2722-2940: one No of no_to_indices
raw_blue_fix_no(data_rows, lines, no) ==
    LET indices == no_to_indices(data_rows, no)
        first_idx == MinOf(indices)
        second_idx == MinOf(indices \ {first_idx})
        first_row == data_rows[first_idx]
        pos_no == pos_no_of(lines, no)
        segment_end == segment_end_of(lines, no, pos_no)
        cand == candidates_of(lines, pos_no, segment_end,
                              OrDash(Cell(first_row, idx_jumlah1)),
                              OrDash(Cell(first_row, idx_jumlah2)))
    IN  IF Cardinality(indices) < 2 \/ pos_no = 0 THEN data_rows
        ELSE IF cand = {}
        THEN apply_fallback(data_rows, lines, first_idx, second_idx, pos_no, segment_end)
        ELSE apply_triple(data_rows, lines, first_idx, second_idx, triple_start_of(lines, cand))

RECURSIVE raw_blue_fix_from(_, _, _)
raw_blue_fix_from(data_rows, lines, keys) ==
    IF keys = <<>> THEN data_rows
    ELSE raw_blue_fix_from(raw_blue_fix_no(data_rows, lines, Head(keys)), lines, Tail(keys))

\* L2658-2947, with the rows it leaves in data_rows as its value
_apply_raw_blue_fix_same_no_baris_bawah(data_rows, raw_blue_lines) ==
    IF data_rows = <<>> \/ raw_blue_lines = <<>> \/ Len(data_rows) < 2 THEN data_rows
    ELSE LET lines == [i \in 1..Len(raw_blue_lines) |-> Strip(raw_blue_lines[i])]
         IN  raw_blue_fix_from(data_rows, lines, no_keys_from(data_rows, 1, <<>>))

(***************************************************************************)
(* The call of L2992 on the record 318 in two rows, alone or followed by   *)
(* the record 319, and on the raw words "318" and up to MaxRawWords words  *)
(* after it.  geo is the search for the triple of the No 318.              *)
(***************************************************************************)
MaxRawWords == 4

RawWords == {"2,000,000", "2,100,000", "0", "487", "319"}
RawLines ==
    {<<"BKSL">>}
    \cup UNION {{<<"318">> \o t : t \in [1..n -> RawWords]} : n \in 0..MaxRawWords}

\* the finished rows hold "-" in a blank cell
FirstRows == {Put(Put(DashRow, 0, "318"), 17, "-"), row_18_of(FullRow)}
SecondRows ==
    {Put(Put(Put(DashRow, 0, "318"), 11, j1), 14, "-") : j1 \in {"-", "2,000,000"}}
    \cup {Put(Put(Put(DashRow, 0, "-"), 11, "2,000,000"), 14, "2,170,000")}
RawBlueTables ==
    {<<f, s_>> : f \in FirstRows, s_ \in SecondRows}
    \cup {<<row_18_of(FullRow), Put(Put(DashRow, 0, "318"), 11, "2,000,000"),
            Put(row_18_of(FullRow), 0, "319")>>}

NoSearch == [pos_no |-> 0, segment_end |-> 0, candidates |-> {}, triple_start |-> 0]

InitRawBlue ==
    /\ pc = "result"
    /\ input \in [data_rows : RawBlueTables, raw_blue_lines : RawLines]
    /\ rows = input.data_rows
    /\ geo = NoSearch
    /\ fn = NoFn
    /\ run = 1
    /\ out1 = <<>>

\* L2992
ApplyRawBlueFix ==
    /\ pc = "result"
    /\ rows' = _apply_raw_blue_fix_same_no_baris_bawah(rows, input.raw_blue_lines)
    /\ geo' = LET lines == input.raw_blue_lines
                  pos_no == pos_no_of(lines, "318")
                  segment_end == segment_end_of(lines, "318", pos_no)
                  cand == candidates_of(lines, pos_no, segment_end,
                                        OrDash(Cell(rows[1], idx_jumlah1)),
                                        OrDash(Cell(rows[1], idx_jumlah2)))
              IN  IF pos_no = 0 THEN NoSearch
                  ELSE [pos_no |-> pos_no, segment_end |-> segment_end, candidates |-> cand,
                        triple_start |-> triple_start_of(lines, cand)]
    /\ pc' = "raw_blue_fixed"
    /\ UNCHANGED <<run, input, fn, out1>>

NextRawBlue == ApplyRawBlueFix

SpecRawBlue == InitRawBlue /\ [][NextRawBlue]_vars

\* the triple of raw words that starts at position i
TripleAt(i) ==
    <<input.raw_blue_lines[i], input.raw_blue_lines[i + 1], input.raw_blue_lines[i + 2]>>

\* Jumlah Saham (1), Jumlah Saham (2) and Perubahan of the second row of 318
SecondRowTriple ==
    <<Cell(rows[2], idx_jumlah1), Cell(rows[2], idx_jumlah2), Cell(rows[2], idx_perubahan)>>

\* C25: the second row of a No with several rows gets the next triple: the
\* three raw words at the earliest position after the word equal to the No
\* that have the shapes large number, large number, change value and of
\* which the first two are not the first row's Jumlah Saham (1) and (2).
C25_SecondRowGetsEarliestTriple ==
    (pc = "raw_blue_fixed" /\ geo.candidates # {})
        => SecondRowTriple = TripleAt(MinOf(geo.candidates))

\* C29: every candidate triple lies inside the segment of the record: its
\* positions i, i + 1, i + 2 are after the position of the No and before
\* segment_end, the position of the next word that looks like another No.
C29_TriplesInsideSegment ==
    pc = "raw_blue_fixed" =>
        \A i \in geo.candidates : geo.pos_no < i /\ i + 2 < geo.segment_end
====
